---- MODULE Spec2Model ----
(***************************************************************************)
(* Model of the Trello shopping-list client (src/app.js): the local cache  *)
(* of cards, the recent-products log, the three views, and the remote      *)
(* board reached through asynchronous fetch calls.                         *)
(***************************************************************************)
EXTENDS Integers, Sequences, FiniteSets, TLC

\* ------------------------------------------------------------------ bounds
\* number of cards on the board when it was loaded
NumInit == 2
\* largest number of fetch calls in flight at the same time
MaxInFlight == 2

\* largest number of user operations that reach a remote call in one run
MaxOps == 2

\* number of card ids, beyond the capacity of the log, that the log is fed with
ExtraLogIds == 1
\* largest number of calls of addToRecentProducts in one run of the log alone
MaxLogSteps == 2

\* number of cards Trello can still create
MaxNew == 1

\* number of cards of the board whose available sublist is sorted alone
NumSortCards == 4
\* proxy requests for images in one run
MaxImageFetches == 3

\* largest number of letters of a text handed to normalizeString
MaxTextLen == 2
\* largest number of characters typed in the search box
MaxQueryLen == 3

\* ------------------------------------------------------- program constants
\* this.recentProducts.slice(0, 10)
MaxRecent == 10

AllProductsListId == "all"
ActiveListId == "active"
ListIds == {AllProductsListId, ActiveListId}

NoStore == "null"

\* this.config.stores and this.config.locations: some of the entries of CONFIG_SEED
ConfigStores ==
    << [name |-> "Mercadona", color |-> "orange"],
       [name |-> "Fruteria", color |-> "lime"],
       [name |-> "Caprabo", color |-> "yellow"] >>
ConfigLocations ==
    << [name |-> "Nevera", color |-> "sky"],
       [name |-> "Lavabo", color |-> "purple"] >>

\* getStoreNames(): this.config.stores.map(s => s.name)
StoreNames == { ConfigStores[i].name : i \in 1..Len(ConfigStores) }

\* labels of a board in use: two store labels and one location label
LabelsInit ==
    << [id |-> "s1", name |-> "Mercadona", color |-> "orange"],
       [id |-> "s2", name |-> "Caprabo", color |-> "yellow"],
       [id |-> "l1", name |-> "Nevera", color |-> "sky"] >>

\* card names are sequences of characters
Names ==
    << <<"L", "e", "c", "h", "e">>,
       <<"C", "a", "f", "e_">>,
       <<"l", "e", "c", "h", "e", " ", "e", "n">> >>

InitIds == 1..NumInit
\* ids Trello gives to the cards it creates
NewIds == (NumInit + 1)..(NumInit + MaxNew)
\* an id that no card ever has
AbsentId == NumInit + MaxNew + 1
CardIds == 1..AbsentId

InitName(i) == Names[((i - 1) % Len(Names)) + 1]
InitLabels(i) == IF i % 2 = 1 THEN {"s1", "l1"} ELSE {"s1", "s2"}

VARIABLES
    cards,          \* this.cards: sequence of card records
    labels,         \* this.labels
    recentProducts, \* this.recentProducts: card ids, most recent first
    lsRecent,       \* localStorage 'recent_products': << >> when the key is absent, else << log >>
    currentView,    \* this.currentView
    currentStore,   \* this.currentStore (label id or NoStore)
    selectedStore,  \* this.selectedStore (label id or NoStore)
    searchQuery,    \* this.searchQuery
    raf,            \* callbacks handed to requestAnimationFrame, not yet run
    calls,          \* fetch calls in flight, with the variables their continuation closes over
    remote,         \* the board at Trello: card id -> list id, or "none"
    imp,            \* the run of importProducts: its position and its local variables
    ev,             \* history: the last handler that ran and its argument
    overlapped,     \* history: a toggle was issued while a call for the same card was in flight
    lost,           \* history: a call failed at the client although Trello applied it
    nOps,       \* history: number of user operations that issued a remote call
    scen,           \* history: progress of an activate-then-deactivate pair of toggles
    lists,          \* this.lists: ids of the lists in memory (allProductsList, activeList)
    board,          \* the board at Trello: its lists and its labels
    load,           \* the run of loadBoard: its position, its local variables, its history
    visible,        \* the view containers that do not carry the class 'hidden'
    txt,            \* two texts handed to normalizeString, and the keys it returned
    wipe,           \* the run of deleteAllProducts: its position, its counters, its history
    storage,        \* localStorage: the credentials, the board id and 'app_config'
    mem,            \* this.apiKey, this.apiToken, this.selectedBoardId, this.config
    hash,           \* the parameters of the fragment in the address bar
    page,           \* the document: not yet constructed ("fresh"), or the screen it shows
    img,            \* this.imageCache, the image fetches in flight, and their history
    dom,            \* what shopping-mode-container holds: "empty", "selector" or "browse"
    cls,            \* this.config.stores, and the label groups the last classification made
    searchTimeout   \* the timers of the search box that are pending, each with its value

vars == << cards, labels, recentProducts, lsRecent, currentView, currentStore,
           selectedStore, searchQuery, raf, calls, remote, imp, ev, overlapped, lost, nOps,
           scen, lists, board, load, visible, txt, wipe, storage, mem, hash, page, img, dom,
          cls, searchTimeout >>

viewVars == << currentView, currentStore, selectedStore, searchQuery, visible, dom >>
histVars == << overlapped, lost, nOps >>
\* the labels and the import run, which only importProducts changes
impVars == << labels, imp >>
\* the delete-all run, the session and the image cache
auxVars == << wipe, storage, mem, hash, page, img, cls, searchTimeout >>
\* what the session handlers leave alone when they only touch the credentials and the screen
nonImgVars == << cards, impVars, recentProducts, lsRecent, viewVars, raf, calls, remote, ev,
                 histVars, scen, lists, board, load, txt, wipe, storage, mem, hash, page, cls,
                 searchTimeout >>
appVars == << cards, impVars, recentProducts, lsRecent, viewVars, raf, calls, remote, histVars,
              scen, lists, board, load, txt, wipe, img, cls, searchTimeout >>
\* the lists, the board's structure, the board load and the texts under comparison, and
\* with them what only the maintenance and session handlers change
loadVars == << lists, board, load, txt, auxVars >>

\* ---------------------------------------------------------------- helpers
RECURSIVE SeqFilterOut(_, _)
\* s.filter(item => item.cardId !== cardId)
SeqFilterOut(s, x) ==
    IF s = << >> THEN << >>
    ELSE IF Head(s) = x THEN SeqFilterOut(Tail(s), x)
         ELSE << Head(s) >> \o SeqFilterOut(Tail(s), x)

AddToRecentKeepsOld(log, cardId) ==
    LET added == << cardId >> \o log
    IN IF Len(added) <= MaxRecent THEN added ELSE SubSeq(added, 1, MaxRecent)
AddToRecentNoCap(log, cardId) == << cardId >> \o SeqFilterOut(log, cardId)
AddToRecentAppend(log, cardId) ==
    LET added == SeqFilterOut(log, cardId) \o << cardId >>
    IN IF Len(added) <= MaxRecent THEN added ELSE SubSeq(added, 1, MaxRecent)
\* addToRecentProducts: filter, unshift, slice(0, 10)
addToRecentProducts(log, cardId) ==
    LET added == << cardId >> \o SeqFilterOut(log, cardId)
    IN IF Len(added) <= MaxRecent THEN added ELSE SubSeq(added, 1, MaxRecent)

\* localStorage.setItem('recent_products', JSON.stringify(this.recentProducts))
saveRecentProducts(log) == << log >>

\* loadRecentProducts: [] when the key is absent, else the parsed array
loadRecentProducts(ls) == IF ls = << >> THEN << >> ELSE ls[1]

\* this.cards.find(c => c.id === cardId): index in cards, 0 when absent
FindCard(cs, cardId) ==
    IF \E i \in 1..Len(cs) : cs[i].id = cardId
    THEN CHOOSE i \in 1..Len(cs) : cs[i].id = cardId /\ \A j \in 1..(i - 1) : cs[j].id # cardId
    ELSE 0

CachedIds == { cards[i].id : i \in 1..Len(cards) }
ListOf(cardId) == cards[FindCard(cards, cardId)].idList

SetList(cs, cardId, listId) ==
    [ i \in 1..Len(cs) |-> IF cs[i].id = cardId THEN [ cs[i] EXCEPT !.idList = listId ] ELSE cs[i] ]

RemoveAt(s, i) == SubSeq(s, 1, i - 1) \o SubSeq(s, i + 1, Len(s))

PendingFor(cardId) == { i \in 1..Len(calls) : calls[i].id = cardId }

\* the store labels: this.labels.filter(l => storeNames.includes(l.name))
StoreLabelIds == { labels[i].id : i \in { j \in 1..Len(labels) : labels[j].name \in StoreNames } }

\* ----------------------------------------------------- search and ordering
ToLower(c) ==
    CASE c = "L" -> "l"
      [] c = "C" -> "c"
      [] c = "E" -> "e"
      [] c = "E_" -> "e_"
      [] OTHER -> c

RECURSIVE NFD(_)
\* str.normalize('NFD'): a character with an accent, written as the base letter followed
\* by "_", becomes the base letter and the combining mark "'"
NFD(str) ==
    IF str = << >> THEN << >>
    ELSE (CASE Head(str) = "e_" -> << "e", "'" >>
            [] Head(str) = "E_" -> << "E", "'" >>
            [] OTHER -> << Head(str) >>) \o NFD(Tail(str))

normalizeStringKeepsMarks(str) ==
    LET decomposed == NFD(str)
    IN [ i \in 1..Len(decomposed) |-> ToLower(decomposed[i]) ]
\* str.normalize('NFD').replace(/[U+0300-U+036F]/g, '').toLowerCase()
normalizeString(str) ==
    LET NotCombining(c) == c # "'"
        stripped == SelectSeq(NFD(str), NotCombining)
    IN [ i \in 1..Len(stripped) |-> ToLower(stripped[i]) ]

IsSpace(c) == c = " "

RECURSIVE TrimLeft(_)
TrimLeft(str) == IF str # << >> /\ IsSpace(Head(str)) THEN TrimLeft(Tail(str)) ELSE str
RECURSIVE TrimRight(_)
TrimRight(str) ==
    IF str # << >> /\ IsSpace(str[Len(str)]) THEN TrimRight(SubSeq(str, 1, Len(str) - 1)) ELSE str
\* str.trim()
Trim(str) == TrimRight(TrimLeft(str))

RECURSIVE SplitAcc(_, _, _)
\* str.split(/\s+/): cur is the word being read, inGap tells that the last character was a space
SplitAcc(str, cur, inGap) ==
    IF str = << >> THEN << cur >>
    ELSE IF IsSpace(Head(str))
         THEN IF inGap THEN SplitAcc(Tail(str), cur, TRUE)
              ELSE << cur >> \o SplitAcc(Tail(str), << >>, TRUE)
         ELSE SplitAcc(Tail(str), Append(cur, Head(str)), FALSE)

StartsWithAnywhere(word, query) ==
    \E i \in 1..(Len(word) + 1) :
        i + Len(query) - 1 <= Len(word) /\ SubSeq(word, i, i + Len(query) - 1) = query
\* word.startsWith(query)
StartsWith(word, query) ==
    Len(query) <= Len(word) /\ SubSeq(word, 1, Len(query)) = query

\* the filter of renderStoreDetail: some word of the normalized name starts with the query
MatchesQuery(name, rawQuery) ==
    LET query == normalizeString(Trim(rawQuery))
        words == SplitAcc(normalizeString(name), << >>, FALSE)
    IN \E i \in 1..Len(words) : StartsWith(words[i], query)

\* this.recentProducts.findIndex(item => item.cardId === id) (1-based here, 0 when absent)
RecentIndex(log, cardId) ==
    IF \E i \in 1..Len(log) : log[i] = cardId
    THEN CHOOSE i \in 1..Len(log) : log[i] = cardId /\ \A j \in 1..(i - 1) : log[j] # cardId
    ELSE 0

CompareRecentByIndexOnly(log, a, b) == RecentIndex(log, a.id) - RecentIndex(log, b.id)
\* the comparator of renderStoreDetail: negative when a goes first
CompareRecent(log, a, b) ==
    LET aIndex == RecentIndex(log, a.id)
        bIndex == RecentIndex(log, b.id)
    IN IF aIndex # 0 /\ bIndex # 0 THEN aIndex - bIndex
       ELSE IF aIndex # 0 THEN -1
       ELSE IF bIndex # 0 THEN 1
       ELSE 0

RECURSIVE InsertSorted(_, _, _)
\* insert x after every element that does not compare greater than x (stable)
InsertSorted(log, sorted, x) ==
    IF sorted = << >> THEN << x >>
    ELSE IF CompareRecent(log, Head(sorted), x) <= 0
         THEN << Head(sorted) >> \o InsertSorted(log, Tail(sorted), x)
         ELSE << x >> \o sorted

RECURSIVE StableSort(_, _)
\* [...availableCards].sort(comparator): Array.prototype.sort is stable
StableSort(log, s) ==
    IF s = << >> THEN << >>
    ELSE InsertSorted(log, StableSort(log, SubSeq(s, 1, Len(s) - 1)), s[Len(s)])

\* renderStoreDetail: this.cards.filter(c => c.idLabels.includes(storeLabel.id))
allStoreCards(store) ==
    LET Has(c) == store \in c.idLabels IN SelectSeq(cards, Has)

activeCards(store) ==
    LET InActive(c) == c.idList = ActiveListId IN SelectSeq(allStoreCards(store), InActive)

availableCards(store) ==
    LET InAll(c) == c.idList = AllProductsListId
        Match(c) == MatchesQuery(c.name, searchQuery)
        avail == SelectSeq(allStoreCards(store), InAll)
    IN IF searchQuery # << >> THEN SelectSeq(avail, Match) ELSE avail

sortedAvailableCards(store) == StableSort(recentProducts, availableCards(store))

SeqIds(s) == { s[i].id : i \in 1..Len(s) }

\* ------------------------------------------------------------------- Init
\* both lists of the app, in the order of their positions on the board
BothLists == << AllProductsListId, ActiveListId >>

NoReq == [ kind |-> "none", group |-> "none", name |-> "none", color |-> "none" ]

\* loadBoard is not running. History: tag is the view state when the run began, sent the
\* create calls it issued, made the ids of what it created, outcome how it ended, okRuns
\* the runs that ended without an error, prior the value of okRuns when the run began
LoadIdle ==
    [ pc |-> "idle", origin |-> "none",
      snap |-> [ lists |-> << >>, labels |-> << >>, cards |-> << >> ],
      stage |-> "none", todo |-> << >>, req |-> NoReq, tag |-> << >>, sent |-> << >>, made |-> {}, outcome |-> "none",
      okRuns |-> 0, prior |-> 0 ]

\* no text has been handed to normalizeString
NoText == [ a |-> << >>, b |-> << >>, done |-> FALSE, ka |-> << >>, kb |-> << >>, kk |-> << >> ]

InitCard(i, listId) ==
    [ id |-> i, name |-> InitName(i), desc |-> "", idList |-> listId, idLabels |-> InitLabels(i) ]

NoScen == [ id |-> 0, stage |-> "none" ]

\* importProducts is not running. History: ran holds the files of the runs that have
\* ended, last the file, the counters and the outcome of the run that ended last, and
\* whether its file had been imported before (again)
ImpIdle == [ pc |-> "idle", file |-> << >>, idx |-> 0, todo |-> << >>, labelIds |-> {},
             imported |-> 0, skipped |-> 0, labelsCreated |-> 0, ran |-> {},
             last |-> [ file |-> << >>, imported |-> 0, skipped |-> 0, left |-> 0,
                        outcome |-> "none", again |-> FALSE ] ]

\* the image cache of a new document: no source URL has a blob URL (0), no proxy request
\* is in flight. History: n counts the proxy requests issued, got holds the source URLs
\* a fetch has returned a blob URL for, last is the last call of fetchImageWithOAuth
NoImages ==
    [ cache |-> [ u \in { "u1", "u2" } |-> 0 ], reqs |-> << >>, n |-> 0, got |-> {},
      last |-> [ url |-> "", sent |-> FALSE, blob |-> 0 ] ]

\* the names of CONFIG_SEED.stores, in their order
SeedStoreNames == << "Mercadona", "Fruteria", "Farmacia", "Carniceria", "Pescaderia", "Caprabo" >>

\* a session in use: the credentials and the board id are stored and in memory, the
\* configuration has been saved, the main screen is shown, nothing is running, the
\* configured stores are those of the seed and no timer of the search box is pending
AuxInit ==
    /\ wipe = [ pc |-> "idle", idx |-> 0, deleted |-> 0, failed |-> 0, start |-> << >>,
                sent |-> << >>, seen |-> << >>, ended |-> FALSE ]
    /\ storage = [ key |-> "K", token |-> "T", board |-> "B", config |-> "json:seed" ]
    /\ mem = [ apiKey |-> "K", apiToken |-> "T", boardId |-> "B", config |-> "seed" ]
    /\ hash = [ key |-> "none", token |-> "none", board |-> "none" ]
    /\ page = "main"
    /\ img = NoImages
    /\ dom = "empty"
    /\ cls = [ stores |-> SeedStoreNames, site |-> "none", store |-> {}, location |-> {} ]
    /\ searchTimeout = << >>

\* the state after a board load: the cache mirrors the board
Init ==
    /\ \E f \in [InitIds -> ListIds] :
          /\ cards = [ i \in InitIds |-> InitCard(i, f[i]) ]
          /\ remote = [ i \in CardIds |-> IF i \in InitIds THEN f[i] ELSE "none" ]
    /\ labels = LabelsInit
    /\ imp = ImpIdle
    /\ recentProducts \in { << >>, << NumInit >> }
    /\ lsRecent = saveRecentProducts(recentProducts)
    /\ currentView = "stores"
    /\ currentStore = NoStore
    /\ selectedStore = NoStore
    /\ searchQuery = << >>
    /\ raf = {}
    /\ calls = << >>
    /\ ev = [ op |-> "init", id |-> 0, found |-> TRUE, pre |-> "none", solo |-> TRUE ]
    /\ overlapped = FALSE
    /\ lost = FALSE
    /\ nOps = 0
    /\ scen = NoScen
    /\ AuxInit
    /\ lists = BothLists
    /\ board = [ lists |-> BothLists, labels |-> LabelsInit ]
    /\ load = LoadIdle
    /\ visible = { "stores" }
    /\ txt = NoText

\* ------------------------------------------------------------- navigation
\* the fields that the show functions write, as one record
ViewNow ==
    [ currentView |-> currentView, currentStore |-> currentStore,
      selectedStore |-> selectedStore, searchQuery |-> searchQuery, visible |-> visible,
      dom |-> dom ]

SetView(v) ==
    /\ currentView' = v.currentView
    /\ currentStore' = v.currentStore
    /\ selectedStore' = v.selectedStore
    /\ searchQuery' = v.searchQuery
    /\ visible' = v.visible
    /\ dom' = v.dom

StoreCardsViewKeepsShopping(v) ==
    [ v EXCEPT !.currentView = "stores", !.searchQuery = << >>,
               !.visible = (@ \ {"detail"}) \cup {"stores"} ]
\* showStoreCards(): the two fields, then classList.remove / add of 'hidden'
StoreCardsView(v) ==
    [ v EXCEPT !.currentView = "stores", !.searchQuery = << >>,
               !.visible = (@ \ {"detail", "shopping"}) \cup {"stores"} ]

\* showStoreDetail(storeLabel)
StoreDetailView(v, store) ==
    [ v EXCEPT !.currentView = "detail", !.currentStore = store, !.searchQuery = << >>,
               !.visible = (@ \ {"stores", "shopping"}) \cup {"detail"} ]

ShoppingModeViewKeepsStore(v) ==
    [ v EXCEPT !.currentView = "shopping",
               !.visible = (@ \ {"stores", "detail"}) \cup {"shopping"},
               !.dom = IF v.selectedStore = NoStore THEN "selector" ELSE "browse" ]
\* showShoppingMode(), which ends with renderShoppingMode(): no store is selected, so
\* renderStoreSelector fills the container
ShoppingModeView(v) ==
    [ v EXCEPT !.currentView = "shopping", !.selectedStore = NoStore,
               !.visible = (@ \ {"stores", "detail"}) \cup {"shopping"},
               !.dom = "selector" ]

\* click on a store card of the store grid
showStoreDetail(store) ==
    /\ currentView = "stores"
    /\ store \in StoreLabelIds
    /\ SetView(StoreDetailView(ViewNow, store))
    /\ UNCHANGED << cards, impVars, recentProducts, lsRecent, raf, calls,
                    remote, ev, histVars, scen >>
    /\ UNCHANGED loadVars

\* back-to-stores-btn, a static button of the store detail, and back-from-shopping of
\* the store selector
showStoreCards ==
    /\ \/ currentView = "detail"
       \/ currentView = "shopping" /\ selectedStore = NoStore
    /\ SetView(StoreCardsView(ViewNow))
    /\ UNCHANGED << cards, impVars, recentProducts, lsRecent,
                    raf, calls, remote, ev, histVars, scen >>
    /\ UNCHANGED loadVars

\* shopping-mode-btn, a static button of the store grid
showShoppingMode ==
    /\ currentView = "stores"
    /\ SetView(ShoppingModeView(ViewNow))
    /\ UNCHANGED << cards, impVars, recentProducts, lsRecent,
                    raf, calls, remote, ev, histVars, scen >>
    /\ UNCHANGED loadVars

selectShoppingStoreKeepsSelector(store) ==
    /\ currentView = "shopping"
    /\ selectedStore = NoStore
    /\ store \in StoreLabelIds
    /\ selectedStore' = store
    /\ UNCHANGED << cards, impVars, recentProducts, lsRecent, currentView, currentStore,
                    searchQuery, visible, dom, raf, calls, remote, ev, histVars, scen >>
    /\ UNCHANGED loadVars

\* click on a store of the store selector: the label is looked up and renderShoppingMode
\* shows its products
selectShoppingStore(store) ==
    /\ currentView = "shopping"
    /\ selectedStore = NoStore
    /\ store \in StoreLabelIds
    /\ selectedStore' = store
    /\ dom' = "browse"
    /\ UNCHANGED << cards, impVars, recentProducts, lsRecent, currentView, currentStore,
                    searchQuery, visible, raf, calls, remote, ev, histVars, scen >>
    /\ UNCHANGED loadVars

\* back-to-shopping-stores of the shopping view
backToShoppingStores ==
    /\ currentView = "shopping"
    /\ selectedStore # NoStore
    /\ selectedStore' = NoStore
    /\ dom' = "selector"
    /\ UNCHANGED << cards, impVars, recentProducts, lsRecent, currentView, currentStore,
                    searchQuery, visible, raf, calls, remote, ev, histVars, scen >>
    /\ UNCHANGED loadVars

searchInputKeepsTimer(value) ==
    /\ currentView = "detail"
    /\ searchQuery # value
    /\ searchQuery' = value
    /\ searchTimeout' = Append(searchTimeout, value)
    /\ UNCHANGED << cards, impVars, recentProducts, lsRecent, currentView, currentStore,
                    selectedStore, visible, dom, raf, calls, remote, ev, histVars, scen >>
    /\ UNCHANGED << lists, board, load, txt, wipe, storage, mem, hash, page, img, cls >>

\* input event of the search box of the store detail: clearTimeout(this.searchTimeout),
\* the query is kept, and a timer is set whose callback holds the value of the event
searchInput(value) ==
    /\ currentView = "detail"
    /\ searchQuery # value
    /\ searchQuery' = value
    /\ searchTimeout' = << value >>
    /\ UNCHANGED << cards, impVars, recentProducts, lsRecent, currentView, currentStore,
                    selectedStore, visible, dom, raf, calls, remote, ev, histVars, scen >>
    /\ UNCHANGED << lists, board, load, txt, wipe, storage, mem, hash, page, img, cls >>

\* the query by which renderStoreDetail filters the products: this.searchQuery
RenderedQuery(query, value) == query

\* the callback of the oldest timer runs after its 300 ms, in whatever view is current:
\* renderStoreDetail(this.currentStore), then the focus goes to the new search box
searchTimeoutFires ==
    /\ searchTimeout # << >>
    /\ searchTimeout' = Tail(searchTimeout)
    /\ UNCHANGED << cards, impVars, recentProducts, lsRecent, viewVars, raf, calls, remote, ev,
                    histVars, scen >>
    /\ UNCHANGED << lists, board, load, txt, wipe, storage, mem, hash, page, img, cls >>

\* search-clear-btn, which is visible while the box holds text: the query is emptied
\* and the detail is rendered; the timer is left as it is
clearSearch ==
    /\ currentView = "detail"
    /\ searchQuery # << >>
    /\ searchQuery' = << >>
    /\ UNCHANGED << cards, impVars, recentProducts, lsRecent, currentView, currentStore,
                    selectedStore, visible, dom, raf, calls, remote, ev, histVars, scen >>
    /\ UNCHANGED loadVars

\* ---------------------------------------------------------------- toggles
Toggles == { "toggleProduct", "toggleCardActive" }

Event(op, cardId, found, pre, solo) ==
    [ op |-> op, id |-> cardId, found |-> found, pre |-> pre, solo |-> solo ]

\* history of the activate-then-deactivate pair: a toggle of cardId is issued
ScenIssue(cardId, prev) ==
    IF scen = [ id |-> cardId, stage |-> "a_ok" ] /\ calls = << >>
    THEN [ id |-> cardId, stage |-> "d_pend" ]
    ELSE IF calls = << >> /\ prev = AllProductsListId
         THEN [ id |-> cardId, stage |-> "a_pend" ]
         ELSE NoScen

\* history of the activate-then-deactivate pair: a call for cardId is answered
ScenResolve(cardId, ok) ==
    IF ok /\ scen = [ id |-> cardId, stage |-> "a_pend" ] THEN [ id |-> cardId, stage |-> "a_ok" ]
    ELSE IF ok /\ scen = [ id |-> cardId, stage |-> "d_pend" ] THEN [ id |-> cardId, stage |-> "d_ok" ]
    ELSE NoScen

\* card.idList === this.activeList.id ? this.allProductsList.id : this.activeList.id
TargetListId(card) ==
    IF card.idList = ActiveListId THEN AllProductsListId ELSE ActiveListId

PreviousListIdAfter(card) == TargetListId(card)
\* const previousListId = card.idList, read before the optimistic assignment
PreviousListId(card) == card.idList

OptimisticListNone(card) == card.idList
\* card.idList = targetListId, before the remote call
OptimisticList(card) == TargetListId(card)

RollbackListUndefined(call) == "undefined"
RollbackListNone(call) == call.target
\* card.idList = previousListId in the catch block
RollbackList(call) == call.prev

\* what the user typed into a modal; NoInput for the calls that carry none
NoInput == [ name |-> << >>, desc |-> "", idLabels |-> {}, image |-> FALSE ]

CallAlwaysWasActive(op, ep, cardId, target, prev, clean, input) ==
    [ op |-> op, ep |-> ep, id |-> cardId, target |-> target, prev |-> prev,
      wasActive |-> TRUE, st |-> "sent", clean |-> clean, input |-> input,
      stale |-> FALSE ]

\* a fetch in flight and the variables its continuation closes over. The continuation
\* holds the card object it found in this.cards; stale tells that loadBoard has since
\* replaced this.cards by new objects, so that the object is no longer in the cache
Call(op, ep, cardId, target, prev, clean, input) ==
    [ op |-> op, ep |-> ep, id |-> cardId, target |-> target, prev |-> prev,
      wasActive |-> (prev = ActiveListId), st |-> "sent", clean |-> clean, input |-> input,
      stale |-> FALSE ]

MoveCall(ep, card, clean) ==
    Call("move", ep, card.id, TargetListId(card), PreviousListId(card), clean, NoInput)

IssueCallLocked(cs, call) ==
    IF \E i \in 1..Len(cs) : cs[i].id = call.id THEN cs
    ELSE Append([ i \in 1..Len(cs) |->
                    IF cs[i].id = call.id THEN [ cs[i] EXCEPT !.clean = FALSE ] ELSE cs[i] ], call)
\* the fetch of trelloFetch is sent; the calls already in flight for the card are no longer alone
IssueCall(cs, call) ==
    Append([ i \in 1..Len(cs) |->
               IF cs[i].id = call.id THEN [ cs[i] EXCEPT !.clean = FALSE ] ELSE cs[i] ], call)

\* addToRecentProducts ends with saveRecentProducts(); nothing else writes the key
StorageOnAdd(ls, log, added) ==
    IF added THEN saveRecentProducts(log) ELSE ls

RecentOnToggleProductEarly(log, cardId, found, wasActive) ==
    IF ~found \/ wasActive THEN addToRecentProducts(log, cardId) ELSE log
\* toggleProduct: if (wasActive) this.addToRecentProducts(cardId), after the lookup
RecentOnToggleProduct(log, cardId, found, wasActive) ==
    IF found /\ wasActive THEN addToRecentProducts(log, cardId) ELSE log

\* click on a product of the store detail
toggleProduct(cardId) ==
    /\ currentView = "detail"
    /\ Len(calls) < MaxInFlight
    /\ LET k == FindCard(cards, cardId)
           found == k # 0
       IN IF ~found
          THEN /\ recentProducts' = RecentOnToggleProduct(recentProducts, cardId, FALSE, FALSE)
               /\ lsRecent' = StorageOnAdd(lsRecent, recentProducts',
                                           recentProducts' # recentProducts)
               /\ ev' = Event("toggleProduct", cardId, FALSE, "none", TRUE)
               /\ UNCHANGED << cards, impVars, viewVars, raf, calls, remote, histVars, scen >>
          ELSE LET card == cards[k]
                   solo == PendingFor(cardId) = {}
               IN /\ nOps < MaxOps
                  /\ currentStore \in card.idLabels
                  /\ cards' = SetList(cards, cardId, OptimisticList(card))
                  /\ recentProducts' = RecentOnToggleProduct(recentProducts, cardId, TRUE,
                                                             PreviousListId(card) = ActiveListId)
                  /\ lsRecent' = StorageOnAdd(lsRecent, recentProducts',
                                              PreviousListId(card) = ActiveListId)
                  /\ raf' = raf \cup { "detail" }
                  /\ calls' = IssueCall(calls, MoveCall("toggleProduct", card, solo))
                  /\ ev' = Event("toggleProduct", cardId, TRUE, card.idList, solo)
                  /\ overlapped' = (overlapped \/ ~solo)
                  /\ nOps' = nOps + 1
                  /\ scen' = ScenIssue(cardId, card.idList)
                  /\ UNCHANGED << impVars, viewVars, remote, lost >>
    /\ UNCHANGED loadVars

\* click on a product of the shopping view
toggleCardActive(cardId) ==
    /\ currentView = "shopping"
    /\ selectedStore # NoStore
    /\ Len(calls) < MaxInFlight
    /\ LET k == FindCard(cards, cardId)
           found == k # 0
       IN IF ~found
          THEN /\ ev' = Event("toggleCardActive", cardId, FALSE, "none", TRUE)
               /\ UNCHANGED << cards, impVars, recentProducts, lsRecent, viewVars, raf, calls,
                               remote, histVars, scen >>
          ELSE LET card == cards[k]
                   solo == PendingFor(cardId) = {}
               IN /\ nOps < MaxOps
                  /\ selectedStore \in card.idLabels
                  /\ cards' = SetList(cards, cardId, OptimisticList(card))
                  /\ raf' = raf \cup { "switch" }
                  /\ calls' = IssueCall(calls, MoveCall("toggleCardActive", card, solo))
                  /\ ev' = Event("toggleCardActive", cardId, TRUE, card.idList, solo)
                  /\ overlapped' = (overlapped \/ ~solo)
                  /\ nOps' = nOps + 1
                  /\ scen' = ScenIssue(cardId, card.idList)
                  /\ UNCHANGED << impVars, recentProducts, lsRecent, viewVars, remote, lost >>
    /\ UNCHANGED loadVars

\* a callback of requestAnimationFrame runs and renders from the cache. The callback of
\* toggleProduct calls renderStoreDetail(this.currentStore), which fills the container of
\* the detail; the callback of toggleCardActive switches over this.currentView and in
\* the shopping view calls renderShoppingView, which reads this.selectedStore.id first
\* and throws a TypeError, leaving the container as it is, when no store is selected
runAnimationFrame(kind) ==
    /\ kind \in raf
    /\ raf' = raf \ { kind }
    /\ dom' = IF kind = "switch" /\ currentView = "shopping" /\ selectedStore # NoStore
              THEN "browse" ELSE dom
    /\ UNCHANGED << cards, impVars, recentProducts, lsRecent, currentView, currentStore,
                    selectedStore, searchQuery, visible, calls, remote, ev, histVars, scen >>
    /\ UNCHANGED loadVars

\* ----------------------------------------------------------------- Trello
SetSt(i, st) == [ calls EXCEPT ![i].st = st ]

\* PUT /cards/{id} {idList}: Trello moves the card and answers 200
ServerMoveOk(i) ==
    /\ i \in 1..Len(calls)
    /\ calls[i].op = "move" /\ calls[i].st = "sent"
    /\ remote[calls[i].id] # "none"
    /\ remote' = [ remote EXCEPT ![calls[i].id] = calls[i].target ]
    /\ calls' = SetSt(i, "ok")
    /\ UNCHANGED << cards, impVars, recentProducts, lsRecent, viewVars, raf, ev, histVars, scen >>
    /\ UNCHANGED loadVars

\* Trello answers with an error status, or the request never reaches it
ServerMoveErr(i) ==
    /\ i \in 1..Len(calls)
    /\ calls[i].op = "move" /\ calls[i].st = "sent"
    /\ calls' = SetSt(i, "err")
    /\ UNCHANGED << cards, impVars, recentProducts, lsRecent, viewVars, raf, remote, ev,
                    histVars, scen >>
    /\ UNCHANGED loadVars

\* Trello moves the card but the response is lost: fetch rejects
ServerMoveLost(i) ==
    /\ i \in 1..Len(calls)
    /\ calls[i].op = "move" /\ calls[i].st = "sent"
    /\ remote[calls[i].id] # "none"
    /\ remote' = [ remote EXCEPT ![calls[i].id] = calls[i].target ]
    /\ calls' = SetSt(i, "err")
    /\ lost' = TRUE
    /\ UNCHANGED << cards, impVars, recentProducts, lsRecent, viewVars, raf, ev, overlapped,
                    nOps, scen >>
    /\ UNCHANGED loadVars

\* await this.moveCard(...) returns; toggleCardActive, after the await:
\* if (isCurrentlyActive) this.addToRecentProducts(cardId)
DeliverMoveOk(i) ==
    /\ i \in 1..Len(calls)
    /\ calls[i].op = "move" /\ calls[i].st = "ok"
    /\ LET call == calls[i]
       IN /\ recentProducts' = IF call.ep = "toggleCardActive" /\ call.wasActive
                              THEN addToRecentProducts(recentProducts, call.id)
                              ELSE recentProducts
          /\ lsRecent' = StorageOnAdd(lsRecent, recentProducts',
                                      call.ep = "toggleCardActive" /\ call.wasActive)
          /\ calls' = RemoveAt(calls, i)
          /\ ev' = Event("moveOk", call.id, TRUE, call.prev, PendingFor(call.id) = { i })
          /\ scen' = ScenResolve(call.id, TRUE)
    /\ UNCHANGED << cards, impVars, viewVars, raf, remote, histVars >>
    /\ UNCHANGED loadVars

\* await this.moveCard(...) throws: the catch block
DeliverMoveErr(i) ==
    /\ i \in 1..Len(calls)
    /\ calls[i].op = "move" /\ calls[i].st = "err"
    /\ LET call == calls[i]
       IN /\ cards' = IF call.stale THEN cards
                       ELSE SetList(cards, call.id, RollbackList(call))
          /\ raf' = raf \cup { IF call.ep = "toggleProduct" THEN "detail" ELSE "switch" }
          /\ calls' = RemoveAt(calls, i)
          /\ ev' = Event("moveErr", call.id, TRUE, call.prev, PendingFor(call.id) = { i })
          /\ scen' = ScenResolve(call.id, FALSE)
    /\ UNCHANGED << impVars, recentProducts, lsRecent, viewVars, remote, histVars >>
    /\ UNCHANGED loadVars

\* ------------------------------------------------------------------- Spec
Next ==
    \/ \E store \in StoreLabelIds : showStoreDetail(store)
    \/ showStoreCards
    \/ showShoppingMode
    \/ \E store \in StoreLabelIds : selectShoppingStore(store)
    \/ backToShoppingStores
    \/ \E cardId \in CachedIds \cup { AbsentId } : toggleProduct(cardId)
    \/ \E cardId \in CachedIds \cup { AbsentId } : toggleCardActive(cardId)
    \/ \E kind \in { "detail", "switch" } : runAnimationFrame(kind)
    \/ \E i \in 1..MaxInFlight : ServerMoveOk(i)
    \/ \E i \in 1..MaxInFlight : ServerMoveErr(i)
    \/ \E i \in 1..MaxInFlight : ServerMoveLost(i)
    \/ \E i \in 1..MaxInFlight : DeliverMoveOk(i)
    \/ \E i \in 1..MaxInFlight : DeliverMoveErr(i)

Spec == Init /\ [][Next]_vars

\* ================================================================= claims
LocalEqualsRemote == \A cardId \in CachedIds : remote[cardId] = ListOf(cardId)

\* C1: after a failed remote move of a toggle, with no other call for that
\* product in flight, the cached list membership of the product equals its
\* membership immediately before the toggle was issued (both entry points).
C1_RollbackRestoresMembership ==
    (ev.op = "moveErr" /\ ev.solo /\ ev.id \in CachedIds) => ListOf(ev.id) = ev.pre

C1_Witness ==
    /\ ev.op = "moveErr" /\ ev.solo /\ ev.id \in CachedIds
    /\ ListOf(ev.id) = ActiveListId
    /\ "switch" \in raf

\* C2: a product of the catalog that is activated and then deactivated, both
\* remote calls succeeding and the second toggle issued after the first
\* resolved, is in the catalog list and first in the available ordering of
\* every store detail that lists it.
C2_ReactivatedGoesToFront ==
    scen.stage = "d_ok" =>
        /\ scen.id \in CachedIds
        /\ ListOf(scen.id) = AllProductsListId
        /\ \A store \in StoreLabelIds :
              scen.id \in SeqIds(availableCards(store)) =>
                  Head(sortedAvailableCards(store)).id = scen.id

C2_Witness ==
    /\ scen.stage = "d_ok"
    /\ Len(sortedAvailableCards("s1")) >= 2
    /\ Head(sortedAvailableCards("s1")).id = scen.id
    /\ Head(availableCards("s1")).id # scen.id

C5_RecentPushedBeforeResolve ==
    /\ (ev.op \in Toggles /\ ev.found /\ ev.pre = ActiveListId)
          => (recentProducts # << >> /\ Head(recentProducts) = ev.id)
    /\ (ev.op = "moveErr" /\ ev.pre = ActiveListId)
          => RecentIndex(recentProducts, ev.id) # 0

\* C6: a toggle called with an id that is not in the cache issues no remote
\* call and changes neither the cached products, nor the recent-products log,
\* nor the view state.
C6_AbsentToggleIsNoOp ==
    [][ (ev' # ev /\ ev'.op \in Toggles /\ ~ev'.found)
            => UNCHANGED << cards, recentProducts, lsRecent, viewVars, calls, remote >> ]_vars

C6_Witness ==
    /\ ev.op \in Toggles /\ ~ev.found
    /\ ev.id \notin CachedIds
    /\ calls # << >>

C10_OverlappingToggleAccepted ==
    (ev.op \in Toggles /\ ev.found /\ ~ev.solo) =>
        /\ ListOf(ev.id) # ev.pre
        /\ Cardinality(PendingFor(ev.id)) >= 2

C10_Witness ==
    /\ overlapped /\ ~lost /\ calls = << >>
    /\ \E cardId \in CachedIds : remote[cardId] # ListOf(cardId)

\* ------------------------------------------- the recent-products log alone
LogIds == 1..(MaxRecent + ExtraLogIds)

\* a log of k distinct ids, starting at id r + 1 and wrapping around
RotatedLog(k, r) == [ i \in 1..k |-> ((i + r - 1) % Cardinality(LogIds)) + 1 ]

\* the app starts with a log that earlier sessions saved
InitLog ==
    /\ \E k \in 0..MaxRecent, r \in 0..(Cardinality(LogIds) - 1) :
          recentProducts = RotatedLog(k, r)
    /\ lsRecent = saveRecentProducts(recentProducts)
    /\ cards = << >>
    /\ remote = [ i \in CardIds |-> "none" ]
    /\ labels = LabelsInit
    /\ imp = ImpIdle
    /\ currentView = "stores"
    /\ currentStore = NoStore
    /\ selectedStore = NoStore
    /\ searchQuery = << >>
    /\ raf = {}
    /\ calls = << >>
    /\ ev = Event("init", 0, TRUE, "none", TRUE)
    /\ overlapped = FALSE
    /\ lost = FALSE
    /\ nOps = 0
    /\ scen = NoScen
    /\ AuxInit
    /\ lists = BothLists
    /\ board = [ lists |-> BothLists, labels |-> LabelsInit ]
    /\ load = LoadIdle
    /\ visible = { "stores" }
    /\ txt = NoText

\* addToRecentProducts(cardId); the event records whether the id was in the
\* log (found) and whether the log had room left (solo)
LogAdd(cardId) ==
    /\ nOps < MaxLogSteps
    /\ nOps' = nOps + 1
    /\ recentProducts' = addToRecentProducts(recentProducts, cardId)
    /\ lsRecent' = saveRecentProducts(recentProducts')
    /\ ev' = Event("addToRecent", cardId, RecentIndex(recentProducts, cardId) # 0, "none",
                   Len(recentProducts) < MaxRecent)
    /\ UNCHANGED << cards, impVars, viewVars, raf, calls, remote, overlapped, lost, scen >>
    /\ UNCHANGED loadVars

\* the page is loaded again: the constructor reads the log from localStorage
LogReload ==
    /\ ev.op # "reload"
    /\ recentProducts' = loadRecentProducts(lsRecent)
    /\ ev' = Event("reload", 0, TRUE, "none", TRUE)
    /\ UNCHANGED << cards, impVars, lsRecent, viewVars, raf, calls, remote, histVars, scen >>
    /\ UNCHANGED loadVars

NextLog ==
    \/ \E cardId \in LogIds : LogAdd(cardId)
    \/ LogReload

SpecLog == InitLog /\ [][NextLog]_vars

\* C3: the recent-products log never holds more than 10 entries, and adding a
\* product that is not in a log of 10 entries removes exactly the last (oldest)
\* entry and keeps the other 9 in their order, behind the new one.
C3_LogBoundedEvictsOldest ==
    /\ Len(recentProducts) <= MaxRecent
    /\ [][ /\ Len(recentProducts') <= MaxRecent
           /\ (ev' # ev /\ ev'.op = "addToRecent" /\ ~ev'.found /\ Len(recentProducts) = MaxRecent)
                 => recentProducts' = << ev'.id >> \o SubSeq(recentProducts, 1, MaxRecent - 1) ]_vars

C3_Witness ==
    /\ ev.op = "addToRecent" /\ ~ev.found /\ ~ev.solo
    /\ Len(recentProducts) = MaxRecent
    /\ Head(recentProducts) = ev.id
    /\ nOps = 2

\* ------------------------------------- the available sublist of a detail
\* a board of NumSortCards cards of the first store, each in one of the two lists, and a
\* log that earlier sessions saved; the log also names cards that are gone
InitSort ==
    /\ \E f \in [1..NumSortCards -> ListIds] :
          cards = [ i \in 1..NumSortCards |-> InitCard(i, f[i]) ]
    /\ \E k \in { 0, 3 }, r \in 0..(Cardinality(LogIds) - 1) :
          recentProducts = RotatedLog(k, r)
    /\ lsRecent = saveRecentProducts(recentProducts)
    /\ remote = [ i \in CardIds |-> "none" ]
    /\ labels = LabelsInit
    /\ imp = ImpIdle
    /\ currentView = "stores"
    /\ currentStore = NoStore
    /\ selectedStore = NoStore
    /\ searchQuery = << >>
    /\ raf = {}
    /\ calls = << >>
    /\ ev = Event("init", 0, TRUE, "none", TRUE)
    /\ overlapped = FALSE
    /\ lost = FALSE
    /\ nOps = 0
    /\ scen = NoScen
    /\ AuxInit
    /\ lists = BothLists
    /\ board = [ lists |-> BothLists, labels |-> LabelsInit ]
    /\ load = LoadIdle
    /\ visible = { "stores" }
    /\ txt = NoText

SpecSort == InitSort /\ [][NextLog]_vars

\* the position of a card in this.cards
CachePos(cardId) == CHOOSE i \in 1..Len(cards) : cards[i].id = cardId

\* C21: the available sublist of a store detail holds the available products of the
\* store, those in the recent-products log before those absent from it, those in the log
\* in log order, those absent from it in the order of the cache
C21_AvailableSortedByRecency ==
    \A store \in StoreLabelIds :
        LET out == sortedAvailableCards(store)
            In(k) == RecentIndex(recentProducts, out[k].id) # 0
        IN /\ Len(out) = Len(availableCards(store))
           /\ SeqIds(out) = SeqIds(availableCards(store))
           /\ \A i, j \in 1..Len(out) :
                 i < j =>
                   /\ In(j) => In(i)
                   /\ (In(i) /\ In(j)) =>
                         RecentIndex(recentProducts, out[i].id)
                             < RecentIndex(recentProducts, out[j].id)
                   /\ (~In(i) /\ ~In(j)) => CachePos(out[i].id) < CachePos(out[j].id)

\* all four products are available; 3 was removed from the list, then 2: the sublist
\* is 2, 3, 1, 4
C21_Witness ==
    /\ ev.op = "addToRecent" /\ nOps = 2
    /\ recentProducts = << 2, 3 >>
    /\ Len(sortedAvailableCards("s1")) = 4
    /\ [ k \in 1..4 |-> sortedAvailableCards("s1")[k].id ] = << 2, 3, 1, 4 >>

\* ------------------------------------------------ edit, delete and create
\* what the edit modal can hold when Guardar is pressed
EditInputs ==
    { [ name |-> Names[2], desc |-> "d", idLabels |-> { "s2" }, image |-> FALSE ],
      [ name |-> << >>, desc |-> "d", idLabels |-> { "s2" }, image |-> FALSE ] }

\* what the add modal can hold when Crear Producto is pressed
CreateInputs ==
    { [ name |-> Names[3], desc |-> "", idLabels |-> { "s1", "l1" }, image |-> FALSE ],
      [ name |-> Names[3], desc |-> "", idLabels |-> { "s1" }, image |-> TRUE ],
      [ name |-> Names[3], desc |-> "", idLabels |-> { "l1" }, image |-> FALSE ],
      [ name |-> << >>, desc |-> "", idLabels |-> { "s1" }, image |-> FALSE ] }

CrudOps == { "saveProductEdit", "deleteProduct", "createProduct" }

\* Guardar of the edit modal
saveProductEdit(cardId, input) ==
    /\ page = "main"
    /\ cardId \in CachedIds
    /\ Len(calls) < MaxInFlight
    /\ IF input.name = << >>
       THEN /\ ev' = Event("saveProductEdit", cardId, FALSE, "none", TRUE)
            /\ UNCHANGED << cards, impVars, recentProducts, lsRecent, viewVars, raf, calls,
                            remote, histVars, scen >>
       ELSE /\ nOps < MaxOps
            /\ nOps' = nOps + 1
            /\ calls' = IssueCall(calls, Call("edit", "saveProductEdit", cardId, "none", "none",
                                              PendingFor(cardId) = {}, input))
            /\ ev' = Event("saveProductEdit", cardId, TRUE, "none", PendingFor(cardId) = {})
            /\ scen' = NoScen
            /\ UNCHANGED << cards, impVars, recentProducts, lsRecent, viewVars, raf, remote,
                            overlapped, lost >>
    /\ UNCHANGED loadVars

\* PUT /cards/{id} {name, desc, idLabels}
ServerEditOk(i) ==
    /\ i \in 1..Len(calls)
    /\ calls[i].op = "edit" /\ calls[i].st = "sent"
    /\ remote[calls[i].id] # "none"
    /\ calls' = SetSt(i, "ok")
    /\ UNCHANGED << cards, impVars, recentProducts, lsRecent, viewVars, raf, remote, ev,
                    histVars, scen >>
    /\ UNCHANGED loadVars

\* Trello answers a call other than a move with an error status
ServerErr(i) ==
    /\ i \in 1..Len(calls)
    /\ calls[i].op # "move" /\ calls[i].st = "sent"
    /\ calls' = SetSt(i, "err")
    /\ UNCHANGED << cards, impVars, recentProducts, lsRecent, viewVars, raf, remote, ev,
                    histVars, scen >>
    /\ UNCHANGED loadVars

\* saveProductEdit after the await: card.name = nameInput; card.desc = descInput;
\* card.idLabels = newLabels, if the card is found
DeliverEditOk(i) ==
    /\ i \in 1..Len(calls)
    /\ calls[i].op = "edit" /\ calls[i].st = "ok"
    /\ cards' = [ k \in 1..Len(cards) |->
                    IF cards[k].id = calls[i].id
                    THEN [ cards[k] EXCEPT !.name = calls[i].input.name,
                                           !.desc = calls[i].input.desc,
                                           !.idLabels = calls[i].input.idLabels ]
                    ELSE cards[k] ]
    /\ calls' = RemoveAt(calls, i)
    /\ ev' = Event("editOk", calls[i].id, TRUE, "none", PendingFor(calls[i].id) = { i })
    /\ scen' = NoScen
    /\ UNCHANGED << impVars, recentProducts, lsRecent, viewVars, raf, remote, histVars >>
    /\ UNCHANGED loadVars

CardsAfterFailureDropsCard(cs, call) ==
    LET Keep(c) == c.id # call.id IN SelectSeq(cs, Keep)

\* the catch blocks of saveProductEdit, deleteProduct and createProduct only show a toast
CardsAfterFailure(cs, call) == cs

\* the catch block of saveProductEdit
DeliverEditErr(i) ==
    /\ i \in 1..Len(calls)
    /\ calls[i].op = "edit" /\ calls[i].st = "err"
    /\ cards' = CardsAfterFailure(cards, calls[i])
    /\ calls' = RemoveAt(calls, i)
    /\ ev' = Event("editErr", calls[i].id, TRUE, "none", PendingFor(calls[i].id) = { i })
    /\ scen' = NoScen
    /\ UNCHANGED << impVars, recentProducts, lsRecent, viewVars, raf, remote, histVars >>
    /\ UNCHANGED loadVars

CardsOnDeleteIssueOptimistic(cs, cardId) ==
    LET Keep(c) == c.id # cardId IN SelectSeq(cs, Keep)
\* deleteProduct leaves this.cards alone until the DELETE call has returned
CardsOnDeleteIssue(cs, cardId) == cs

\* Eliminar of the confirmation modal
deleteProduct(cardId) ==
    /\ Len(calls) < MaxInFlight
    /\ IF cardId \notin CachedIds
       THEN /\ ev' = Event("deleteProduct", cardId, FALSE, "none", TRUE)
            /\ UNCHANGED << cards, impVars, recentProducts, lsRecent, viewVars, raf, calls,
                            remote, histVars, scen >>
       ELSE /\ nOps < MaxOps
            /\ nOps' = nOps + 1
            /\ cards' = CardsOnDeleteIssue(cards, cardId)
            /\ calls' = IssueCall(calls, Call("delete", "deleteProduct", cardId, "none", "none",
                                              PendingFor(cardId) = {}, NoInput))
            /\ ev' = Event("deleteProduct", cardId, TRUE, "none", PendingFor(cardId) = {})
            /\ scen' = NoScen
            /\ UNCHANGED << impVars, recentProducts, lsRecent, viewVars, raf, remote,
                            overlapped, lost >>
    /\ UNCHANGED loadVars

\* DELETE /cards/{id}
ServerDeleteOk(i) ==
    /\ i \in 1..Len(calls)
    /\ calls[i].op = "delete" /\ calls[i].st = "sent"
    /\ remote[calls[i].id] # "none"
    /\ remote' = [ remote EXCEPT ![calls[i].id] = "none" ]
    /\ calls' = SetSt(i, "ok")
    /\ UNCHANGED << cards, impVars, recentProducts, lsRecent, viewVars, raf, ev, histVars, scen >>
    /\ UNCHANGED loadVars

\* deleteProduct after the await: this.cards = this.cards.filter(c => c.id !== cardId)
DeliverDeleteOk(i) ==
    /\ i \in 1..Len(calls)
    /\ calls[i].op = "delete" /\ calls[i].st = "ok"
    /\ cards' = LET Keep(c) == c.id # calls[i].id IN SelectSeq(cards, Keep)
    /\ calls' = RemoveAt(calls, i)
    /\ ev' = Event("deleteOk", calls[i].id, TRUE, "none", PendingFor(calls[i].id) = { i })
    /\ scen' = NoScen
    /\ UNCHANGED << impVars, recentProducts, lsRecent, viewVars, raf, remote, histVars >>
    /\ UNCHANGED loadVars

\* the catch block of deleteProduct
DeliverDeleteErr(i) ==
    /\ i \in 1..Len(calls)
    /\ calls[i].op = "delete" /\ calls[i].st = "err"
    /\ cards' = CardsAfterFailure(cards, calls[i])
    /\ calls' = RemoveAt(calls, i)
    /\ ev' = Event("deleteErr", calls[i].id, TRUE, "none", PendingFor(calls[i].id) = { i })
    /\ scen' = NoScen
    /\ UNCHANGED << impVars, recentProducts, lsRecent, viewVars, raf, remote, histVars >>
    /\ UNCHANGED loadVars

selectedStoreLabelsAny(selected) == selected

\* the label ids of the selection that are store labels
selectedStoreLabels(selected) == selected \cap StoreLabelIds

\* ids Trello has not given to a card yet
FreeIds == { n \in NewIds : remote[n] = "none" /\ n \notin CachedIds
                            /\ \A i \in 1..Len(calls) : calls[i].id # n }

\* Crear Producto of the add modal
createProduct(input) ==
    /\ page = "main"
    /\ Len(calls) < MaxInFlight
    /\ IF input.name = << >> \/ selectedStoreLabels(input.idLabels) = {}
       THEN /\ ev' = Event("createProduct", 0, FALSE, "none", TRUE)
            /\ UNCHANGED << cards, impVars, recentProducts, lsRecent, viewVars, raf, calls,
                            remote, histVars, scen >>
       ELSE /\ nOps < MaxOps
            /\ nOps' = nOps + 1
            /\ calls' = IssueCall(calls, Call("createCard", "createProduct", 0,
                                              AllProductsListId, "none", TRUE, input))
            /\ ev' = Event("createProduct", 0, TRUE, "none", TRUE)
            /\ scen' = NoScen
            /\ UNCHANGED << cards, impVars, recentProducts, lsRecent, viewVars, raf, remote,
                            overlapped, lost >>
    /\ UNCHANGED loadVars

\* POST /cards: Trello creates the card in the list of the request and gives it an id
ServerCreateCardOk(i) ==
    /\ i \in 1..Len(calls)
    /\ calls[i].op = "createCard" /\ calls[i].st = "sent"
    /\ FreeIds # {}
    /\ LET n == CHOOSE m \in FreeIds : \A o \in FreeIds : m <= o
       IN /\ remote' = [ remote EXCEPT ![n] = calls[i].target ]
          /\ calls' = [ calls EXCEPT ![i].st = "ok", ![i].id = n ]
    /\ UNCHANGED << cards, impVars, recentProducts, lsRecent, viewVars, raf, ev, histVars, scen >>
    /\ UNCHANGED loadVars

\* the card record of a response of Trello
ResponseCard(call, listId) ==
    [ id |-> call.id, name |-> call.input.name, desc |-> call.input.desc, idList |-> listId,
      idLabels |-> call.input.idLabels ]

\* createProduct after await this.createCard: push the card, or go on with the image
DeliverCreateCardOk(i) ==
    /\ i \in 1..Len(calls)
    /\ calls[i].op = "createCard" /\ calls[i].ep = "createProduct" /\ calls[i].st = "ok"
    /\ IF calls[i].input.image
       THEN /\ calls' = [ calls EXCEPT ![i].op = "attach", ![i].st = "sent" ]
            /\ ev' = Event("createCardOk", calls[i].id, TRUE, "none", TRUE)
            /\ UNCHANGED cards
       ELSE /\ cards' = Append(cards, ResponseCard(calls[i], calls[i].target))
            /\ calls' = RemoveAt(calls, i)
            /\ ev' = Event("createOk", calls[i].id, TRUE, "none", TRUE)
    /\ scen' = NoScen
    /\ UNCHANGED << impVars, recentProducts, lsRecent, viewVars, raf, remote, histVars >>
    /\ UNCHANGED loadVars

\* POST /cards/{id}/attachments, and the GET of the card that follows it
ServerImageOk(i) ==
    /\ i \in 1..Len(calls)
    /\ calls[i].op \in { "attach", "reload" } /\ calls[i].st = "sent"
    /\ remote[calls[i].id] # "none"
    /\ calls' = [ calls EXCEPT ![i].st = "ok", ![i].target = remote[calls[i].id] ]
    /\ UNCHANGED << cards, impVars, recentProducts, lsRecent, viewVars, raf, remote, ev,
                    histVars, scen >>
    /\ UNCHANGED loadVars

\* createProduct after await this.addAttachmentToCard: reload the card
DeliverAttachOk(i) ==
    /\ i \in 1..Len(calls)
    /\ calls[i].op = "attach" /\ calls[i].st = "ok"
    /\ calls' = [ calls EXCEPT ![i].op = "reload", ![i].st = "sent" ]
    /\ ev' = Event("attachOk", calls[i].id, TRUE, "none", TRUE)
    /\ UNCHANGED << cards, impVars, recentProducts, lsRecent, viewVars, raf, remote, histVars, scen >>
    /\ UNCHANGED loadVars

\* createProduct after the reload: this.cards.push(updatedCard)
DeliverReloadOk(i) ==
    /\ i \in 1..Len(calls)
    /\ calls[i].op = "reload" /\ calls[i].st = "ok"
    /\ cards' = Append(cards, ResponseCard(calls[i], calls[i].target))
    /\ calls' = RemoveAt(calls, i)
    /\ ev' = Event("createOk", calls[i].id, TRUE, "none", TRUE)
    /\ scen' = NoScen
    /\ UNCHANGED << impVars, recentProducts, lsRecent, viewVars, raf, remote, histVars >>
    /\ UNCHANGED loadVars

\* the catch block of createProduct, for any of its three calls
DeliverCreateErr(i) ==
    /\ i \in 1..Len(calls)
    /\ calls[i].op \in { "createCard", "attach", "reload" }
    /\ calls[i].ep = "createProduct" /\ calls[i].st = "err"
    /\ cards' = CardsAfterFailure(cards, calls[i])
    /\ calls' = RemoveAt(calls, i)
    /\ ev' = Event("createErr", calls[i].id, TRUE, "none", TRUE)
    /\ scen' = NoScen
    /\ UNCHANGED << impVars, recentProducts, lsRecent, viewVars, raf, remote, histVars >>
    /\ UNCHANGED loadVars

NextCrud ==
    \/ \E cardId \in CachedIds, input \in EditInputs : saveProductEdit(cardId, input)
    \/ \E cardId \in CachedIds \cup { AbsentId } : deleteProduct(cardId)
    \/ \E input \in CreateInputs : createProduct(input)
    \/ \E i \in 1..MaxInFlight : ServerEditOk(i)
    \/ \E i \in 1..MaxInFlight : ServerDeleteOk(i)
    \/ \E i \in 1..MaxInFlight : ServerCreateCardOk(i)
    \/ \E i \in 1..MaxInFlight : ServerImageOk(i)
    \/ \E i \in 1..MaxInFlight : ServerErr(i)
    \/ \E i \in 1..MaxInFlight : DeliverEditOk(i)
    \/ \E i \in 1..MaxInFlight : DeliverEditErr(i)
    \/ \E i \in 1..MaxInFlight : DeliverDeleteOk(i)
    \/ \E i \in 1..MaxInFlight : DeliverDeleteErr(i)
    \/ \E i \in 1..MaxInFlight : DeliverCreateCardOk(i)
    \/ \E i \in 1..MaxInFlight : DeliverAttachOk(i)
    \/ \E i \in 1..MaxInFlight : DeliverReloadOk(i)
    \/ \E i \in 1..MaxInFlight : DeliverCreateErr(i)

SpecCrud == Init /\ [][NextCrud]_vars

\* the cache already shows the change that the pending call asks Trello for
ChangeShown(call) ==
    CASE call.op = "edit" ->
            \A k \in 1..Len(cards) :
                cards[k].id = call.id =>
                    /\ cards[k].name = call.input.name
                    /\ cards[k].desc = call.input.desc
                    /\ cards[k].idLabels = call.input.idLabels
      [] call.op = "delete" -> call.id \notin CachedIds
      [] OTHER -> \E k \in 1..Len(cards) : cards[k].name = call.input.name

ImportFiles ==
    { << [ name |-> << "l", "e", "c", "h", "e" >>, desc |-> "", stores |-> << "Mercadona" >>,
           locations |-> << >>, inList |-> TRUE ],
         [ name |-> << "p", "a", "n" >>, desc |-> "", stores |-> << "Mercadona" >>,
           locations |-> << "Despensa" >>, inList |-> TRUE ] >>,
      << [ name |-> << "c", "a", "f", "e" >>, desc |-> "", stores |-> << "Caprabo" >>,
           locations |-> << "Nevera" >>, inList |-> FALSE ],
         [ name |-> << "p", "a", "n" >>, desc |-> "", stores |-> << "Mercadona" >>,
           locations |-> << >>, inList |-> TRUE ] >> }

\* str.toLowerCase()
toLowerCase(str) == [ i \in 1..Len(str) |-> ToLower(str[i]) ]

FindLabelByNameNever(ls, name) == 0
\* this.labels.find(l => l.name === storeName): index in labels, 0 when absent
FindLabelByName(ls, name) ==
    IF \E k \in 1..Len(ls) : ls[k].name = name
    THEN CHOOSE k \in 1..Len(ls) : ls[k].name = name /\ \A j \in 1..(k - 1) : ls[j].name # name
    ELSE 0

RECURSIVE ImportRun(_, _, _)
\* the loop of importProducts from the state st up to its next await or its end;
\* pc "next" is the head of the loop, pc "labels" is inside the two label loops. A
\* product is skipped if
\* this.cards.some(c => c.name.toLowerCase() === product.name.toLowerCase())
ImportRun(st, cs, ls) ==
    IF st.pc = "next"
    THEN IF st.idx > Len(st.file)
         THEN [ st EXCEPT !.pc = "done" ]
         ELSE IF \E k \in 1..Len(cs) :
                      toLowerCase(cs[k].name) = toLowerCase(st.file[st.idx].name)
              THEN ImportRun([ st EXCEPT !.idx = @ + 1, !.skipped = @ + 1 ], cs, ls)
              ELSE ImportRun([ st EXCEPT !.pc = "labels", !.labelIds = {},
                                         !.todo = st.file[st.idx].stores \o st.file[st.idx].locations ],
                             cs, ls)
    ELSE IF st.todo = << >>
         THEN [ st EXCEPT !.pc = "awaitCard" ]
         ELSE LET k == FindLabelByName(ls, Head(st.todo))
              IN IF k # 0
                 THEN ImportRun([ st EXCEPT !.todo = Tail(@), !.labelIds = @ \cup { ls[k].id } ],
                                cs, ls)
                 ELSE [ st EXCEPT !.pc = "awaitLabel" ]

\* the call importProducts is waiting for in state st. A label is created with
\* storeColor || 'orange' for a store of the product and locationColor || 'green' for a
\* location: the files name their labels by strings, and todo holds the stores first.
\* The card goes to product.inList ? this.activeList : this.allProductsList
ImportCall(st) ==
    IF st.pc = "awaitLabel"
    THEN Call("createLabel", "importProducts", 0, Head(st.todo),
              IF Len(st.todo) > Len(st.file[st.idx].locations) THEN "orange" ELSE "green",
              TRUE, NoInput)
    ELSE Call("createCard", "importProducts", 0,
              IF st.file[st.idx].inList THEN ActiveListId ELSE AllProductsListId, "none", TRUE,
              [ name |-> st.file[st.idx].name, desc |-> st.file[st.idx].desc,
                idLabels |-> st.labelIds, image |-> FALSE ])

\* importProducts ends in state st, after its last toast ("ok") or in its outer catch
\* ("error"): its local variables are gone; left counts the products it never reached
ImportEnd(st, outcome) ==
    [ ImpIdle EXCEPT !.ran = st.ran \cup { st.file },
                     !.last = [ file |-> st.file, imported |-> st.imported,
                                skipped |-> st.skipped,
                                left |-> IF outcome = "ok" THEN 0 ELSE Len(st.file) - st.idx,
                                outcome |-> outcome, again |-> st.file \in st.ran ] ]

\* the import goes on to st: it sends the next call, or it has finished
ImportContinue(st, cs) ==
    IF st.pc = "done"
    THEN /\ imp' = ImportEnd(st, "ok")
         /\ calls' = cs
    ELSE /\ imp' = st
         /\ calls' = IssueCall(cs, ImportCall(st))

\* a file is chosen in the import dialog
importProducts(file) ==
    /\ imp.pc = "idle"
    /\ Len(calls) < MaxInFlight
    /\ nOps < MaxOps
    /\ nOps' = nOps + 1
    /\ ImportContinue(ImportRun([ imp EXCEPT !.pc = "next", !.file = file, !.idx = 1 ],
                                cards, labels), calls)
    /\ ev' = Event("importProducts", 0, TRUE, "none", TRUE)
    /\ scen' = NoScen
    /\ UNCHANGED << cards, labels, recentProducts, lsRecent, viewVars, raf, remote,
                    overlapped, lost >>
    /\ UNCHANGED loadVars

\* POST /labels
ServerCreateLabelOk(i) ==
    /\ i \in 1..Len(calls)
    /\ calls[i].op = "createLabel" /\ calls[i].st = "sent"
    /\ calls' = SetSt(i, "ok")
    /\ UNCHANGED << cards, impVars, recentProducts, lsRecent, viewVars, raf, remote, ev,
                    histVars, scen >>
    /\ UNCHANGED loadVars

\* importProducts after await this.createLabel: the label is pushed and used
DeliverCreateLabelOk(i) ==
    /\ i \in 1..Len(calls)
    /\ calls[i].op = "createLabel" /\ calls[i].st = "ok"
    /\ imp.pc = "awaitLabel"
    /\ labels' = Append(labels, [ id |-> calls[i].target, name |-> calls[i].target,
                                  color |-> calls[i].prev ])
    /\ ImportContinue(ImportRun([ imp EXCEPT !.pc = "labels", !.todo = Tail(@),
                                             !.labelIds = @ \cup { calls[i].target },
                                             !.labelsCreated = @ + 1 ], cards, labels'),
                      RemoveAt(calls, i))
    /\ ev' = Event("createLabelOk", 0, TRUE, "none", TRUE)
    /\ UNCHANGED << cards, recentProducts, lsRecent, viewVars, raf, remote, histVars, scen >>
    /\ UNCHANGED loadVars

\* the inner catch of importProducts: the label is left out
DeliverCreateLabelErr(i) ==
    /\ i \in 1..Len(calls)
    /\ calls[i].op = "createLabel" /\ calls[i].st = "err"
    /\ imp.pc = "awaitLabel"
    /\ ImportContinue(ImportRun([ imp EXCEPT !.pc = "labels", !.todo = Tail(@) ], cards, labels),
                      RemoveAt(calls, i))
    /\ ev' = Event("createLabelErr", 0, TRUE, "none", TRUE)
    /\ UNCHANGED << cards, labels, recentProducts, lsRecent, viewVars, raf, remote, histVars, scen >>
    /\ UNCHANGED loadVars

\* importProducts after await this.createCard: this.cards.push(card); imported++
DeliverImportCardOk(i) ==
    /\ i \in 1..Len(calls)
    /\ calls[i].op = "createCard" /\ calls[i].ep = "importProducts" /\ calls[i].st = "ok"
    /\ imp.pc = "awaitCard"
    /\ cards' = Append(cards, ResponseCard(calls[i], calls[i].target))
    /\ ImportContinue(ImportRun([ imp EXCEPT !.pc = "next", !.idx = @ + 1, !.imported = @ + 1 ],
                                cards', labels),
                      RemoveAt(calls, i))
    /\ ev' = Event("importCardOk", calls[i].id, TRUE, "none", TRUE)
    /\ scen' = NoScen
    /\ UNCHANGED << labels, recentProducts, lsRecent, viewVars, raf, remote, histVars >>
    /\ UNCHANGED loadVars

\* createCard throws inside the loop: the outer catch of importProducts ends the import
DeliverImportCardErr(i) ==
    /\ i \in 1..Len(calls)
    /\ calls[i].op = "createCard" /\ calls[i].ep = "importProducts" /\ calls[i].st = "err"
    /\ imp.pc = "awaitCard"
    /\ imp' = ImportEnd(imp, "error")
    /\ calls' = RemoveAt(calls, i)
    /\ ev' = Event("importErr", 0, TRUE, "none", TRUE)
    /\ scen' = NoScen
    /\ UNCHANGED << cards, labels, recentProducts, lsRecent, viewVars, raf, remote, histVars >>
    /\ UNCHANGED loadVars

NextImport ==
    \/ \E file \in ImportFiles : importProducts(file)
    \/ \E i \in 1..MaxInFlight : ServerCreateLabelOk(i)
    \/ \E i \in 1..MaxInFlight : DeliverCreateLabelOk(i)
    \/ \E i \in 1..MaxInFlight : DeliverCreateLabelErr(i)
    \/ \E i \in 1..MaxInFlight : DeliverImportCardOk(i)
    \/ \E i \in 1..MaxInFlight : DeliverImportCardErr(i)

\* toggles from both views, product creation and import together
NextAll ==
    \/ \E store \in StoreLabelIds : showStoreDetail(store)
    \/ showStoreCards
    \/ showShoppingMode
    \/ \E store \in StoreLabelIds : selectShoppingStore(store)
    \/ backToShoppingStores
    \/ \E cardId \in CachedIds : toggleProduct(cardId)
    \/ \E cardId \in CachedIds : toggleCardActive(cardId)
    \/ \E i \in 1..MaxInFlight : ServerMoveOk(i)
    \/ \E i \in 1..MaxInFlight : ServerMoveErr(i)
    \/ \E i \in 1..MaxInFlight : DeliverMoveOk(i)
    \/ \E i \in 1..MaxInFlight : DeliverMoveErr(i)
    \/ \E input \in CreateInputs : createProduct(input)
    \/ \E i \in 1..MaxInFlight : ServerCreateCardOk(i)
    \/ \E i \in 1..MaxInFlight : ServerImageOk(i)
    \/ \E i \in 1..MaxInFlight : ServerErr(i)
    \/ \E i \in 1..MaxInFlight : DeliverCreateCardOk(i)
    \/ \E i \in 1..MaxInFlight : DeliverAttachOk(i)
    \/ \E i \in 1..MaxInFlight : DeliverReloadOk(i)
    \/ \E i \in 1..MaxInFlight : DeliverCreateErr(i)
    \/ NextImport

SpecAll == Init /\ [][NextAll]_vars

\* renderShoppingProduct(card, card.idList === this.activeList?.id)
isInList(card) == card.idList = ActiveListId

\* C8: starting from a cache in which every product is in the catalog or the
\* active list, after any sequence of toggles (failed ones and their rollbacks
\* included), creations and imports, every cached product is in exactly one of
\* the two lists, and it is shown as active iff its list is the active list.
C8_EveryProductInOneOfTwoLists ==
    \A k \in 1..Len(cards) :
        /\ cards[k].idList \in ListIds
        /\ isInList(cards[k]) <=> cards[k].idList = ActiveListId
        /\ \A store \in cards[k].idLabels :
              /\ cards[k].id \in SeqIds(activeCards(store)) <=> cards[k].idList = ActiveListId
              /\ searchQuery = << >> =>
                    (cards[k].id \in SeqIds(availableCards(store))
                        <=> cards[k].idList = AllProductsListId)

C8_Witness ==
    /\ ev.op = "moveErr"
    /\ ev.id \in NewIds
    /\ ev.id \in CachedIds
    /\ ListOf(ev.id) = ev.pre
    /\ calls = << >>

\* C22: an import of a file of which an earlier import has ended creates no product:
\* it issues no call that creates a card and skips every product of the file
C22_SecondImportCreatesNothing ==
    /\ (imp.pc # "idle" /\ imp.file \in imp.ran) =>
          (imp.imported = 0 /\ imp.pc # "awaitCard")
    /\ (imp.pc = "idle" /\ imp.last.again) =>
          (imp.last.imported = 0 /\ imp.last.skipped = Len(imp.last.file))

\* C23: an import asks Trello for a label only while no label in memory has its name;
\* and the product it pushes has the name of the file's product, is in the active list
\* if inList is set and in the catalog list otherwise, at Trello as in the cache, and
\* carries a label of every store and location name for which memory holds a label
C23_ImportResolvesLabelsAndList ==
    /\ \A i \in 1..Len(calls) :
          calls[i].op = "createLabel" =>
              ~\E k \in 1..Len(labels) : labels[k].name = calls[i].target
    /\ [][ (imp.pc = "awaitCard" /\ Len(cards') = Len(cards) + 1 /\ imp'.imported # imp.imported)
             => LET p == imp.file[imp.idx]
                    c == cards'[Len(cards')]
                    names == p.stores \o p.locations
                IN /\ c.name = p.name
                   /\ c.idList = IF p.inList THEN ActiveListId ELSE AllProductsListId
                   /\ remote'[c.id] = c.idList
                   /\ \A n \in 1..Len(names) :
                         (\E k \in 1..Len(labels') : labels'[k].name = names[n]) =>
                             \E k \in 1..Len(labels') :
                                 labels'[k].name = names[n] /\ labels'[k].id \in c.idLabels
                   /\ \A id \in c.idLabels :
                         \E k \in 1..Len(labels'), n \in 1..Len(names) :
                             labels'[k].id = id /\ labels'[k].name = names[n] ]_vars

\* "pan" has been imported into the active list: its store label was found in memory,
\* its location label "Despensa" was created, and "leche" was skipped
C23_Witness ==
    /\ ev.op = "importCardOk"
    /\ imp.last.outcome = "ok" /\ imp.last.imported = 1 /\ imp.last.skipped = 1
    /\ \E k \in 1..Len(cards) :
          /\ cards[k].id = ev.id
          /\ cards[k].idList = ActiveListId
          /\ cards[k].idLabels = { "s1", "Despensa" }
    /\ \E k \in 1..Len(labels) : labels[k].name = "Despensa" /\ labels[k].color = "green"

\* C24: an import that has ended has reached every product of its file, whether or not
\* the creation of a product failed
C24_FailedProductDoesNotAbortImport ==
    imp.pc = "idle" => imp.last.left = 0

\* ------------------------------------------------------------- board load
\* the state of the views as the spec names it
ViewTag ==
    IF currentView = "stores" THEN << "Stores" >>
    ELSE IF currentView = "detail" THEN << "Detail", currentStore >>
    ELSE IF selectedStore = NoStore THEN << "Shopping.SelectStore" >>
    ELSE << "Shopping.Browse", selectedStore >>

\* the colors by which setupBoardStructure tells the label groups
LocationColors == { "green", "blue", "purple", "sky", "lime", "pink" }
StoreColors == { "orange", "red", "yellow", "black" }

HasListStale(ls, listId) == FALSE
\* lists.find(l => l.name === this.config.listNames...): a list is written as its name
HasList(ls, listId) == \E i \in 1..Len(ls) : ls[i] = listId

\* setupBoardStructure reaches an await: the call that creates a list (group "list") or
\* a label of a group is sent
AwaitCreate(st, group, name, color) ==
    LET req == [ kind |-> IF group = "list" THEN "list" ELSE "label", group |-> group,
                 name |-> name, color |-> color ]
    IN [ st EXCEPT !.pc = "create", !.req = req, !.sent = Append(@, req) ]

RECURSIVE SetupRun(_, _, _)
\* setupBoardStructure from the state st up to its next await or its end; ls and lbs are
\* this.lists and this.labels
SetupRun(st, ls, lbs) ==
    CASE st.stage = "all" ->
           IF HasList(ls, AllProductsListId)
           THEN SetupRun([ st EXCEPT !.stage = "active" ], ls, lbs)
           ELSE AwaitCreate(st, "list", AllProductsListId, "none")
      [] st.stage = "active" ->
           IF HasList(ls, ActiveListId)
           THEN SetupRun([ st EXCEPT !.stage = "locationLabels" ], ls, lbs)
           ELSE AwaitCreate(st, "list", ActiveListId, "none")
      [] st.stage = "locationLabels" ->
           IF \A i \in 1..Len(lbs) : lbs[i].color \notin LocationColors
           THEN SetupRun([ st EXCEPT !.stage = "locations", !.todo = ConfigLocations ], ls, lbs)
           ELSE SetupRun([ st EXCEPT !.stage = "storeLabels" ], ls, lbs)
      [] st.stage = "locations" ->
           IF st.todo = << >>
           THEN SetupRun([ st EXCEPT !.stage = "storeLabels" ], ls, lbs)
           ELSE AwaitCreate(st, "location", Head(st.todo).name, Head(st.todo).color)
      [] st.stage = "storeLabels" ->
           IF \A i \in 1..Len(lbs) : lbs[i].color \notin StoreColors
           THEN SetupRun([ st EXCEPT !.stage = "stores", !.todo = ConfigStores ], ls, lbs)
           ELSE [ st EXCEPT !.pc = "done", !.stage = "none" ]
      [] st.stage = "stores" ->
           IF st.todo = << >>
           THEN [ st EXCEPT !.pc = "done", !.stage = "none" ]
           ELSE AwaitCreate(st, "store", Head(st.todo).name, Head(st.todo).color)

\* the callback that refresh() chains to loadBoard(), by the branch refresh took
ThenCallback(origin, v, lbs) ==
    IF origin = "detail"
    THEN IF v.currentStore # NoStore /\ \E i \in 1..Len(lbs) : lbs[i].id = v.currentStore
         THEN StoreDetailView(v, v.currentStore)
         ELSE v
    ELSE IF origin = "shopping" THEN ShoppingModeView(v)
    ELSE v

\* loadBoard ends: the run is over and its history is kept
LoadEnd(st, outcome) ==
    [ st EXCEPT !.pc = "idle", !.stage = "none", !.todo = << >>, !.req = NoReq,
                !.outcome = outcome,
                !.okRuns = IF outcome = "ok" THEN @ + 1 ELSE @ ]

\* loadBoard goes on from st after setupBoardStructure moved (or was skipped): the next
\* create call is in flight, or showStoreCards() runs and the promise resolves
LoadContinue(st, lbs) ==
    IF st.pc = "done"
    THEN /\ load' = LoadEnd(st, "ok")
         /\ SetView(ThenCallback(st.origin, StoreCardsView(ViewNow), lbs))
    ELSE /\ load' = st
         /\ UNCHANGED viewVars

\* loadBoard(): the four GET calls of Promise.all are sent
LoadStart(origin) ==
    /\ load.pc = "idle"
    /\ nOps < MaxOps
    /\ nOps' = nOps + 1
    /\ load' = [ LoadIdle EXCEPT !.pc = "fetch", !.origin = origin, !.tag = ViewTag,
                                 !.okRuns = load.okRuns, !.prior = load.okRuns ]
    /\ UNCHANGED << cards, impVars, recentProducts, lsRecent, viewVars, raf, calls, remote, ev,
                    overlapped, lost, scen, lists, board, txt >>

\* selectBoard(boardId): the id is kept and stored, and the board is loaded. The board
\* list is on screen; in the runs that begin on the main screen the step stands for any
\* later load of the selected board from its start, as init() does in a new document
selectBoard ==
    /\ page \in { "boards", "main" }
    /\ LoadStart("boot")
    /\ mem' = [ mem EXCEPT !.boardId = "B" ]
    /\ storage' = [ storage EXCEPT !.board = "B" ]
    /\ page' = "main"
    /\ UNCHANGED << wipe, hash, img, cls, searchTimeout >>

\* refresh-btn, detail-refresh-btn: the branch is chosen by this.currentView
refresh == LoadStart(currentView) /\ UNCHANGED auxVars

\* Trello answers the four GET calls with the board as it is; here Trello only moves
\* cards, so the cards of the board are those it began with, each in its list
ServerLoadOk ==
    /\ load.pc = "fetch"
    /\ LET ids == { i \in CardIds : remote[i] # "none" }
           Nth(k) == CHOOSE i \in ids : Cardinality({ j \in ids : j < i }) = k - 1
           RemoteCards == [ k \in 1..Cardinality(ids) |-> InitCard(Nth(k), remote[Nth(k)]) ]
       IN load' = [ load EXCEPT !.pc = "fetchOk",
                                !.snap = [ lists |-> board.lists, labels |-> board.labels,
                                           cards |-> RemoteCards ] ]
    /\ UNCHANGED << cards, impVars, recentProducts, lsRecent, viewVars, raf, calls, remote, ev,
                    histVars, scen, lists, board, txt >>
    /\ UNCHANGED auxVars

\* one of the four GET calls fails: Promise.all rejects
ServerLoadErr ==
    /\ load.pc = "fetch"
    /\ load' = [ load EXCEPT !.pc = "fetchErr" ]
    /\ UNCHANGED << cards, impVars, recentProducts, lsRecent, viewVars, raf, calls, remote, ev,
                    histVars, scen, lists, board, txt >>
    /\ UNCHANGED auxVars

\* loadBoard after await Promise.all: the cache is replaced, the lists are looked up,
\* and if (!this.allProductsList || !this.activeList) setupBoardStructure is awaited
DeliverLoadOk ==
    /\ load.pc = "fetchOk"
    /\ lists' = load.snap.lists
    /\ cards' = load.snap.cards
    /\ labels' = load.snap.labels
    /\ IF ~HasList(lists', AllProductsListId) \/ ~HasList(lists', ActiveListId)
       THEN LoadContinue(SetupRun([ load EXCEPT !.stage = "all" ], lists', labels'), labels')
       ELSE LoadContinue([ load EXCEPT !.pc = "done" ], labels')
    /\ calls' = [ i \in 1..Len(calls) |-> [ calls[i] EXCEPT !.stale = TRUE ] ]
    /\ UNCHANGED << imp, recentProducts, lsRecent, raf, remote, ev, histVars, scen,
                    board, txt >>
    /\ UNCHANGED auxVars

\* the catch of loadBoard after a failed GET: a toast; the promise of loadBoard resolves
DeliverLoadErr ==
    /\ load.pc = "fetchErr"
    /\ load' = LoadEnd(load, "fetchErr")
    /\ SetView(ThenCallback(load.origin, ViewNow, labels))
    /\ UNCHANGED << cards, impVars, recentProducts, lsRecent, raf, calls, remote, ev,
                    histVars, scen, lists, board, txt >>
    /\ UNCHANGED auxVars

\* the label Trello creates; its id is written as its name
CreatedLabel(req) == [ id |-> req.name, name |-> req.name, color |-> req.color ]

\* POST /lists, POST /labels: the board holds the new list or label
ServerSetupOk ==
    /\ load.pc = "create"
    /\ board' = IF load.req.kind = "list"
                THEN [ board EXCEPT !.lists = Append(@, load.req.name) ]
                ELSE [ board EXCEPT !.labels = Append(@, CreatedLabel(load.req)) ]
    /\ load' = [ load EXCEPT !.pc = "createOk" ]
    /\ UNCHANGED << cards, impVars, recentProducts, lsRecent, viewVars, raf, calls, remote, ev,
                    histVars, scen, lists, txt >>
    /\ UNCHANGED auxVars

\* the create call fails at Trello: trelloFetch throws
ServerSetupErr ==
    /\ load.pc = "create"
    /\ load' = [ load EXCEPT !.pc = "createErr" ]
    /\ UNCHANGED << cards, impVars, recentProducts, lsRecent, viewVars, raf, calls, remote, ev,
                    histVars, scen, lists, board, txt >>
    /\ UNCHANGED auxVars

\* setupBoardStructure after await this.createList / this.createLabel: this.lists.push
\* of the new list, this.labels.push of the new label
DeliverSetupOk ==
    /\ load.pc = "createOk"
    /\ lists' = IF load.req.kind = "list" THEN Append(lists, load.req.name) ELSE lists
    /\ labels' = IF load.req.kind = "label" THEN Append(labels, CreatedLabel(load.req))
                 ELSE labels
    /\ LET AfterCreate ==
               [ load EXCEPT !.made = @ \cup { load.req.name },
                             !.req = NoReq,
                             !.stage = IF load.stage = "all" THEN "active"
                                       ELSE IF load.stage = "active" THEN "locationLabels"
                                       ELSE @,
                             !.todo = IF load.req.kind = "label" THEN Tail(@) ELSE @ ]
       IN LoadContinue(SetupRun(AfterCreate, lists', labels'), labels')
    /\ UNCHANGED << cards, imp, recentProducts, lsRecent, raf, calls, remote, ev, histVars,
                    scen, board, txt >>
    /\ UNCHANGED auxVars

ListsAfterSetupFailureRollsBack(ls, made) ==
    LET Kept(l) == l \notin made IN SelectSeq(ls, Kept)
\* the catch of loadBoard leaves this.lists as setupBoardStructure left it
ListsAfterSetupFailure(ls, made) == ls

\* the create call throws out of setupBoardStructure into the catch of loadBoard: a
\* toast, showStoreCards() is skipped, the promise of loadBoard resolves
DeliverSetupErr ==
    /\ load.pc = "createErr"
    /\ load' = LoadEnd(load, "createErr")
    /\ lists' = ListsAfterSetupFailure(lists, load.made)
    /\ SetView(ThenCallback(load.origin, ViewNow, labels))
    /\ UNCHANGED << cards, impVars, recentProducts, lsRecent, raf, calls, remote, ev,
                    histVars, scen, board, txt >>
    /\ UNCHANGED auxVars

\* --------------------------------------------- the board bootstrap alone
ViewNames == { "stores", "detail", "shopping" }

\* the app after construction, before any board is loaded; the classes of the view
\* containers are those of the page's markup. The board that is selected holds any of
\* the two lists and no label, one label, or the labels of a board in use
InitBoot ==
    /\ board \in [ lists : { << >>, << AllProductsListId >>, << ActiveListId >>, BothLists },
                    labels : { << >>,
                               << [id |-> "s3", name |-> "Fruteria", color |-> "lime"] >>,
                               << [id |-> "s1", name |-> "Mercadona", color |-> "orange"] >>,
                               << [id |-> "l1", name |-> "Nevera", color |-> "sky"] >>,
                               LabelsInit } ]
    /\ remote = [ i \in CardIds |->
                    IF i \in InitIds /\ board.lists = BothLists /\ board.labels = LabelsInit
                    THEN AllProductsListId ELSE "none" ]
    /\ visible \in SUBSET ViewNames
    /\ cards = << >>
    /\ labels = << >>
    /\ lists = << >>
    /\ load = LoadIdle
    /\ imp = ImpIdle
    /\ recentProducts = << >>
    /\ lsRecent = << >>
    /\ currentView = "stores"
    /\ currentStore = NoStore
    /\ selectedStore = NoStore
    /\ searchQuery = << >>
    /\ raf = {}
    /\ calls = << >>
    /\ ev = Event("init", 0, TRUE, "none", TRUE)
    /\ overlapped = FALSE
    /\ lost = FALSE
    /\ nOps = 0
    /\ scen = NoScen
    /\ AuxInit
    /\ txt = NoText

NextBoot ==
    \/ selectBoard
    \/ ServerLoadOk
    \/ ServerLoadErr
    \/ DeliverLoadOk
    \/ DeliverLoadErr
    \/ ServerSetupOk
    \/ ServerSetupErr
    \/ DeliverSetupOk
    \/ DeliverSetupErr

SpecBoot == InitBoot /\ [][NextBoot]_vars

\* C11: a board load that begins after an earlier load ended without an error issues
\* no call that creates a list and no call that creates a label
C11_SecondBootstrapCreatesNothing ==
    load.prior >= 1 => load.sent = << >>

\* a second load has ended on a board that the first load had to complete: both lists
\* and all five configured labels exist although the board began with fewer
C11_Witness ==
    /\ load.prior >= 1 /\ load.pc = "idle" /\ load.outcome = "ok"
    /\ load.sent = << >>
    /\ board.lists = BothLists
    /\ Len(board.labels) = Len(ConfigLocations) + Len(ConfigStores)
    /\ labels = board.labels

IsStoreLabel(label) == label.name \in StoreNames
IsLocationLabel(label) == label.name \notin StoreNames

\* C12: a run creates store labels only if the fetched board had no store label (a label
\* named as a configured store), and location labels only if it had no location label
C12_GroupCreatedOnlyWhenAbsent ==
    \A k \in 1..Len(load.sent) :
        /\ load.sent[k].group = "store" =>
              ~\E i \in 1..Len(load.snap.labels) : IsStoreLabel(load.snap.labels[i])
        /\ load.sent[k].group = "location" =>
              ~\E i \in 1..Len(load.snap.labels) : IsLocationLabel(load.snap.labels[i])

InMemoryIds ==
    { lists[i] : i \in 1..Len(lists) } \cup { labels[i].id : i \in 1..Len(labels) }

\* C13: after a load in which no call failed, both lists and both label groups are in
\* memory, whatever was missing on the board, and so is everything the load created
C13_LoadCompletesStructure ==
    (load.pc = "idle" /\ load.outcome = "ok") =>
        /\ HasList(lists, AllProductsListId) /\ HasList(lists, ActiveListId)
        /\ \E i \in 1..Len(labels) :
              IsStoreLabel(labels[i]) \/ labels[i].color \in StoreColors
        /\ \E i \in 1..Len(labels) :
              IsLocationLabel(labels[i]) \/ labels[i].color \in LocationColors
        /\ load.made \subseteq InMemoryIds

\* C14: when a create call of setupBoardStructure fails, the run is over (the error is
\* in the catch of loadBoard), the failed call is the last one the run issued, and what
\* the run created before stays in this.lists and this.labels
C14_SetupFailureKeepsPartialStructure ==
    load.outcome = "createErr" =>
        /\ load.pc = "idle" /\ load.req = NoReq
        /\ Len(load.sent) = Cardinality(load.made) + 1
        /\ load.made \subseteq InMemoryIds

\* the second create call of a run failed after the first one had created a list
C14_Witness ==
    /\ load.outcome = "createErr"
    /\ AllProductsListId \in load.made
    /\ HasList(lists, AllProductsListId)
    /\ ~HasList(lists, ActiveListId)

\* --------------------------------------------------- the views and refresh
\* a board in use has been loaded; other sessions may have moved cards since
InitNav ==
    /\ \E f \in [InitIds -> ListIds], g \in [InitIds -> ListIds] :
          /\ cards = [ i \in InitIds |-> InitCard(i, f[i]) ]
          /\ remote = [ i \in CardIds |-> IF i \in InitIds THEN g[i] ELSE "none" ]
    /\ labels = LabelsInit
    /\ lists = BothLists
    /\ board = [ lists |-> BothLists, labels |-> LabelsInit ]
    /\ load = LoadIdle
    /\ visible = { "stores" }
    /\ imp = ImpIdle
    /\ recentProducts = << >>
    /\ lsRecent = << >>
    /\ currentView = "stores"
    /\ currentStore = NoStore
    /\ selectedStore = NoStore
    /\ searchQuery = << >>
    /\ raf = {}
    /\ calls = << >>
    /\ ev = Event("init", 0, TRUE, "none", TRUE)
    /\ overlapped = FALSE
    /\ lost = FALSE
    /\ nOps = 0
    /\ scen = NoScen
    /\ AuxInit
    /\ txt = NoText

NextNav ==
    \/ \E store \in StoreLabelIds : showStoreDetail(store)
    \/ showStoreCards
    \/ showShoppingMode
    \/ \E store \in StoreLabelIds : selectShoppingStore(store)
    \/ backToShoppingStores
    \/ \E value \in { << "L", "e" >>, << >> } : searchInput(value)
    \/ refresh
    \/ ServerLoadOk
    \/ ServerLoadErr
    \/ DeliverLoadOk
    \/ DeliverLoadErr

SpecNav == InitNav /\ [][NextNav]_vars

\* C15: once the board has been shown, currentView is one of the three views and the
\* only view container that is visible is the one of currentView
C15_OneViewVisible ==
    /\ currentView \in ViewNames
    /\ visible = { currentView }

\* the shopping view of a store is shown after a detail was visited and a refresh ended
C15_Witness ==
    /\ currentView = "shopping" /\ selectedStore # NoStore
    /\ currentStore # NoStore
    /\ load.pc = "idle" /\ load.outcome = "ok"
    /\ visible = { "shopping" }

\* the transitions that the view state machine lists, by the kinds of the two states
ListedTransitions ==
    { << "Stores", "Detail" >>, << "Detail", "Stores" >>,
      << "Stores", "Shopping.SelectStore" >>, << "Shopping.SelectStore", "Stores" >>,
      << "Shopping.SelectStore", "Shopping.Browse" >>,
      << "Shopping.Browse", "Shopping.SelectStore" >> }

C17_EnteringAStateClearsSearch ==
    [][ ViewTag' # ViewTag => searchQuery' = << >> ]_vars

\* C18: when a refresh ends without an error, and the user has not navigated meanwhile,
\* the view state is the one in which refresh was triggered and the cache holds what
\* was fetched
C18_RefreshRestoresViewState ==
    [][ (load.pc = "fetchOk" /\ load'.pc = "idle" /\ load.origin # "boot"
         /\ ViewTag = load.tag)
            => /\ ViewTag' = load.tag
               /\ cards' = load.snap.cards
               /\ labels' = load.snap.labels
               /\ lists' = load.snap.lists ]_vars

\* ------------------------------------------------- normalizeString alone
RECURSIVE Variants(_)
\* the ways to write a text that differ in case and accent only: each letter in lower or
\* upper case, an accented letter as one character or as the letter and a combining mark
Variants(base) ==
    IF base = << >> THEN { << >> }
    ELSE LET c == Head(base)
             Spellings ==
                 IF c = "e"
                 THEN { << "e" >>, << "E" >>, << "e_" >>, << "E_" >>,
                        << "e", "'" >>, << "E", "'" >> }
                 ELSE IF c = "c" THEN { << "c" >>, << "C" >> }
                 ELSE { << c >> }
         IN { h \o t : h \in Spellings, t \in Variants(Tail(base)) }

\* two texts over the letters e, c and the blank that differ in case and accents only
InitText ==
    /\ \E base \in UNION { [ 1..n -> { "e", "c", " " } ] : n \in 0..MaxTextLen } :
          \E a \in Variants(base), b \in Variants(base) :
              txt = [ NoText EXCEPT !.a = a, !.b = b ]
    /\ cards = << >>
    /\ remote = [ i \in CardIds |-> "none" ]
    /\ labels = LabelsInit
    /\ lists = BothLists
    /\ board = [ lists |-> BothLists, labels |-> LabelsInit ]
    /\ load = LoadIdle
    /\ visible = { "stores" }
    /\ imp = ImpIdle
    /\ recentProducts = << >>
    /\ lsRecent = << >>
    /\ currentView = "stores"
    /\ currentStore = NoStore
    /\ selectedStore = NoStore
    /\ searchQuery = << >>
    /\ raf = {}
    /\ calls = << >>
    /\ ev = Event("init", 0, TRUE, "none", TRUE)
    /\ overlapped = FALSE
    /\ lost = FALSE
    /\ nOps = 0
    /\ scen = NoScen
    /\ AuxInit

\* normalizeString is applied to both texts, and again to the key of the first
NextText ==
    /\ ~txt.done
    /\ txt' = [ txt EXCEPT !.done = TRUE,
                           !.ka = normalizeString(txt.a),
                           !.kb = normalizeString(txt.b),
                           !.kk = normalizeString(normalizeString(txt.a)) ]
    /\ UNCHANGED << cards, impVars, recentProducts, lsRecent, viewVars, raf, calls, remote, ev,
                    histVars, scen, lists, board, load >>
    /\ UNCHANGED auxVars

SpecText == InitText /\ [][NextText]_vars

\* C19: texts that differ in case and accents only get the same key, and the key of a
\* key is the key itself
C19_NormalizeFoldsCaseAndAccents ==
    txt.done => (txt.ka = txt.kb /\ txt.kk = txt.ka)

\* "cÉ" with the accented capital as one character, "Ce" followed by a combining mark
C19_Witness ==
    /\ txt.done
    /\ txt.a = << "c", "E_" >>
    /\ txt.b = << "C", "e", "'" >>
    /\ txt.ka = << "c", "e" >>

\* ------------------------------------------------- the search of a detail
\* the cards of the board carry any of the names; the cache mirrors the board
InitSearch ==
    /\ \E f \in [InitIds -> ListIds], n \in [InitIds -> 1..Len(Names)] :
          /\ cards = [ i \in InitIds |-> [ InitCard(i, f[i]) EXCEPT !.name = Names[n[i]] ] ]
          /\ remote = [ i \in CardIds |-> IF i \in InitIds THEN f[i] ELSE "none" ]
    /\ labels = LabelsInit
    /\ lists = BothLists
    /\ board = [ lists |-> BothLists, labels |-> LabelsInit ]
    /\ load = LoadIdle
    /\ visible = { "stores" }
    /\ imp = ImpIdle
    /\ recentProducts = << >>
    /\ lsRecent = << >>
    /\ currentView = "stores"
    /\ currentStore = NoStore
    /\ selectedStore = NoStore
    /\ searchQuery = << >>
    /\ raf = {}
    /\ calls = << >>
    /\ ev = Event("init", 0, TRUE, "none", TRUE)
    /\ overlapped = FALSE
    /\ lost = FALSE
    /\ nOps = 0
    /\ scen = NoScen
    /\ AuxInit
    /\ txt = NoText

\* a key stroke in the search box: the input event carries the new value of the box
typeChar(c) ==
    /\ Len(searchQuery) < MaxQueryLen
    /\ searchInput(Append(searchQuery, c))

\* the last character of the search box is erased
eraseChar ==
    /\ searchQuery # << >>
    /\ searchInput(SubSeq(searchQuery, 1, Len(searchQuery) - 1))

NextSearch ==
    \/ \E store \in StoreLabelIds : showStoreDetail(store)
    \/ showStoreCards
    \/ \E c \in { "l", "e", "c", "h", "E_", " " } : typeChar(c)
    \/ eraseChar

SpecSearch == InitSearch /\ [][NextSearch]_vars

\* q stands in name at a position where a word begins, and holds no whitespace
IsPrefixOfSomeWord(name, q) ==
    /\ \A k \in 1..Len(q) : ~IsSpace(q[k])
    /\ \E i \in 1..(Len(name) + 1) :
          /\ i = 1 \/ IsSpace(name[i - 1])
          /\ i + Len(q) - 1 <= Len(name)
          /\ \A k \in 1..Len(q) : name[i + k - 1] = q[k]

\* the products of the open store that are in the catalog list
CatalogCardsOfStore ==
    { k \in 1..Len(cards) : currentStore \in cards[k].idLabels
                            /\ cards[k].idList = AllProductsListId }

\* C20 as stated: with a non-empty search text, a catalog product of the store is listed
\* as available exactly if the normalized text is a prefix of a word of its normalized name
C20_ListedIffQueryIsWordPrefix ==
    (currentView = "detail" /\ searchQuery # << >>) =>
        \A k \in CatalogCardsOfStore :
            cards[k].id \in SeqIds(availableCards(currentStore))
                <=> IsPrefixOfSomeWord(normalizeString(cards[k].name),
                                       normalizeString(searchQuery))

\* C20 amended: with a non-empty search text, a catalog product of the store is listed as
\* available exactly if the normalized text, without the whitespace at its ends, is a
\* prefix of a word of its normalized name
C20_ListedIffTrimmedQueryIsWordPrefix ==
    (currentView = "detail" /\ searchQuery # << >>) =>
        \A k \in CatalogCardsOfStore :
            cards[k].id \in SeqIds(availableCards(currentStore))
                <=> IsPrefixOfSomeWord(normalizeString(cards[k].name),
                                       normalizeString(Trim(searchQuery)))

\* "che" is typed: the product "leche en" of the catalog is not listed
C20_Witness ==
    /\ currentView = "detail"
    /\ searchQuery = << "c", "h", "e" >>
    /\ \E k \in CatalogCardsOfStore :
          /\ cards[k].name = Names[3]
          /\ cards[k].id \notin SeqIds(availableCards(currentStore))


\* --------------------------------------------------- deleteAllProducts
WipeContinueOverStart(w, cs) ==
    IF w.idx <= Len(w.start)
    THEN /\ wipe' = [ w EXCEPT !.pc = "await", !.sent = Append(@, w.start[w.idx]) ]
         /\ calls' = IssueCall(cs, Call("delete", "deleteAllProducts", w.start[w.idx],
                                        "none", "none", TRUE, NoInput))
         /\ UNCHANGED cards
    ELSE /\ wipe' = [ w EXCEPT !.pc = "idle", !.ended = TRUE,
                               !.seen = [ k \in 1..Len(cards) |-> cards[k].id ] ]
         /\ calls' = cs
         /\ cards' = << >>
\* for (const card of this.cards) at index w.idx: the DELETE of the next card of the
\* array is sent, or the loop is over and this.cards = []. The loop reads the array at
\* every turn; in the runs with deleteAllProducts the array is only pushed to. History:
\* start holds the ids of the array when the run began, sent the ids of the calls it
\* issued, seen the ids of the array when the loop ended
WipeContinue(w, cs) ==
    IF w.idx <= Len(cards)
    THEN /\ wipe' = [ w EXCEPT !.pc = "await", !.sent = Append(@, cards[w.idx].id) ]
         /\ calls' = IssueCall(cs, Call("delete", "deleteAllProducts", cards[w.idx].id,
                                        "none", "none", TRUE, NoInput))
         /\ UNCHANGED cards
    ELSE /\ wipe' = [ w EXCEPT !.pc = "idle", !.ended = TRUE,
                               !.seen = [ k \in 1..Len(cards) |-> cards[k].id ] ]
         /\ calls' = cs
         /\ cards' = << >>

\* confirm-delete-all of the delete-all dialog
deleteAllProducts ==
    /\ wipe.pc = "idle"
    /\ Len(calls) < MaxInFlight
    /\ nOps < MaxOps
    /\ nOps' = nOps + 1
    /\ WipeContinue([ wipe EXCEPT !.idx = 1, !.deleted = 0, !.failed = 0, !.sent = << >>,
                                  !.ended = FALSE,
                                  !.start = [ k \in 1..Len(cards) |-> cards[k].id ] ], calls)
    /\ ev' = Event("deleteAllProducts", 0, TRUE, "none", TRUE)
    /\ scen' = NoScen
    /\ UNCHANGED << impVars, recentProducts, lsRecent, viewVars, raf, remote, overlapped, lost,
                    lists, board, load, txt, storage, mem, hash, page, img,
                    cls, searchTimeout >>

\* deleteAllProducts after await this.trelloFetch: deleted++, or failed++ in the catch of
\* the loop, and the next turn of the loop
DeliverWipe(i) ==
    /\ i \in 1..Len(calls)
    /\ calls[i].ep = "deleteAllProducts" /\ calls[i].st \in { "ok", "err" }
    /\ wipe.pc = "await"
    /\ WipeContinue([ wipe EXCEPT !.idx = @ + 1,
                                  !.deleted = IF calls[i].st = "ok" THEN @ + 1 ELSE @,
                                  !.failed = IF calls[i].st = "err" THEN @ + 1 ELSE @ ],
                    RemoveAt(calls, i))
    /\ ev' = Event("wipeStep", calls[i].id, calls[i].st = "ok", "none", TRUE)
    /\ scen' = NoScen
    /\ UNCHANGED << impVars, recentProducts, lsRecent, viewVars, raf, remote, histVars,
                    lists, board, load, txt, storage, mem, hash, page, img,
                    cls, searchTimeout >>

\* delete-all while products are created
NextWipe ==
    \/ deleteAllProducts
    \/ \E i \in 1..MaxInFlight : ServerDeleteOk(i)
    \/ \E i \in 1..MaxInFlight : ServerErr(i)
    \/ \E i \in 1..MaxInFlight : DeliverWipe(i)
    \/ \E input \in CreateInputs : createProduct(input)
    \/ \E i \in 1..MaxInFlight : ServerCreateCardOk(i)
    \/ \E i \in 1..MaxInFlight : ServerImageOk(i)
    \/ \E i \in 1..MaxInFlight : DeliverCreateCardOk(i)
    \/ \E i \in 1..MaxInFlight : DeliverAttachOk(i)
    \/ \E i \in 1..MaxInFlight : DeliverReloadOk(i)
    \/ \E i \in 1..MaxInFlight : DeliverCreateErr(i)

SpecWipe == Init /\ [][NextWipe]_vars

\* the delete calls of deleteAllProducts that are in flight
WipeCalls == { i \in 1..Len(calls) : calls[i].ep = "deleteAllProducts" }

\* C25 as stated: deleteAllProducts has at most one delete call pending, and when it
\* ends it has issued one delete call for each product that was in the cache when it
\* started, and for no other, with deleted + failed the number of those products
C25_OneDeletePerStartingProduct ==
    /\ Cardinality(WipeCalls) <= 1
    /\ (wipe.pc = "idle" /\ wipe.ended) =>
          /\ wipe.sent = wipe.start
          /\ wipe.deleted + wipe.failed = Len(wipe.start)

\* C25 amended: deleteAllProducts has at most one delete call pending, the calls it has
\* issued are for the products of the cache array up to its position, one each, and
\* when it ends it has issued one delete call for each product that was in the cache
\* when it started and for each product appended to the cache while it ran, in the
\* order of the array, with deleted + failed the number of the calls it issued
C25_OneDeletePerIteratedProduct ==
    /\ Cardinality(WipeCalls) <= 1
    /\ wipe.pc = "await" =>
          /\ Cardinality(WipeCalls) = 1
          /\ wipe.sent = [ k \in 1..wipe.idx |-> cards[k].id ]
          /\ wipe.deleted + wipe.failed = wipe.idx - 1
    /\ \A k \in 1..Len(wipe.start) : k <= Len(wipe.sent) => wipe.sent[k] = wipe.start[k]
    /\ \A j, k \in 1..Len(wipe.sent) : j # k => wipe.sent[j] # wipe.sent[k]
    /\ (wipe.pc = "idle" /\ wipe.ended) =>
          /\ wipe.sent = wipe.seen
          /\ wipe.deleted + wipe.failed = Len(wipe.sent)

\* a run over two products has ended after a third, created while it ran, was appended
\* to the cache: three delete calls, of which one failed
C25_Witness ==
    /\ wipe.pc = "idle" /\ wipe.ended
    /\ Len(wipe.start) = NumInit
    /\ Len(wipe.sent) = NumInit + 1
    /\ wipe.sent[NumInit + 1] \in NewIds
    /\ wipe.failed = 1 /\ wipe.deleted = NumInit

\* ------------------------------------------------------------------ session
\* The values of the session are texts: a credential is "K", "T" or "B", a storage key that
\* is absent reads "none", a field of the fragment that is absent reads "none", and an
\* 'app_config' entry is "none" (no key), "" (the empty string), "corrupt" (a text that
\* JSON.parse rejects) or "json:" followed by the name of the configuration it encodes.

loadConfigAlwaysSeeds(entry) == [ config |-> "seed", entry |-> "json:seed" ]

\* loadConfig(): the configuration it returns, and what 'app_config' holds when it has
\* returned; CONFIG_SEED is the configuration "seed"
loadConfig(entry) ==
    LET parse == [ t \in { "json:seed", "json:custom" } |->
                     IF t = "json:seed" THEN "seed" ELSE "custom" ]
        stringify == [ c \in { "seed", "custom" } |->
                         IF c = "seed" THEN "json:seed" ELSE "json:custom" ]
    IN IF entry \notin { "none", "" } /\ entry \in DOMAIN parse
       THEN [ config |-> parse[entry], entry |-> entry ]
       ELSE [ config |-> "seed", entry |-> stringify["seed"] ]

\* new ShoppingApp(): the constructor reads the storage and calls init(), which runs
\* checkUrlParamsLogin() and then loads the board, lists the boards, or leaves the login screen
startup ==
    /\ page = "fresh"
    /\ LET cfg == loadConfig(storage.config)
           Stored(v) == IF v = "none" THEN "" ELSE v
           login == hash.key \notin { "none", "" } /\ hash.token \notin { "none", "" }
           withBoard == login /\ hash.board \notin { "none", "" }
           key == IF login THEN hash.key ELSE Stored(storage.key)
           token == IF login THEN hash.token ELSE Stored(storage.token)
           boardId == IF withBoard THEN hash.board ELSE Stored(storage.board)
       IN /\ mem' = [ apiKey |-> key, apiToken |-> token, boardId |-> boardId,
                      config |-> cfg.config ]
          /\ storage' = [ key |-> IF login THEN hash.key ELSE storage.key,
                          token |-> IF login THEN hash.token ELSE storage.token,
                          board |-> IF withBoard THEN hash.board ELSE storage.board,
                          config |-> cfg.entry ]
          /\ hash' = IF login THEN [ key |-> "none", token |-> "none", board |-> "none" ]
                     ELSE hash
          /\ IF key # "" /\ token # "" /\ boardId # ""
             THEN LoadStart("boot") /\ page' = "main"
             ELSE /\ page' = IF key # "" /\ token # "" THEN "boardsWait" ELSE "login"
                  /\ UNCHANGED << appVars, ev >>
    /\ UNCHANGED << wipe, img, cls, searchTimeout >>

\* submit of the login form; key and token are the texts of the fields after trim()
handleLogin(key, token) ==
    /\ page = "login"
    /\ IF key = "" \/ token = ""
       THEN /\ ev' = Event("handleLogin", 0, FALSE, "none", TRUE)
            /\ UNCHANGED << mem, page >>
       ELSE /\ mem' = [ mem EXCEPT !.apiKey = key, !.apiToken = token ]
            /\ page' = "testing"
            /\ ev' = Event("handleLogin", 0, TRUE, "none", TRUE)
    /\ UNCHANGED << appVars, storage, hash >>

\* location.reload(): the document and the memory of the app are discarded, the
\* continuations that wait for an answer never run, and the constructor runs next
locationReload ==
    /\ page' = "fresh"
    /\ mem' = [ apiKey |-> "", apiToken |-> "", boardId |-> "", config |-> "none" ]
    /\ cards' = << >>
    /\ labels' = << >>
    /\ lists' = << >>
    /\ calls' = << >>
    /\ raf' = {}
    /\ load' = [ LoadIdle EXCEPT !.okRuns = load.okRuns ]
    /\ recentProducts' = loadRecentProducts(lsRecent)
    /\ SetView([ currentView |-> "stores", currentStore |-> NoStore, selectedStore |-> NoStore,
                 searchQuery |-> << >>, visible |-> { "stores" }, dom |-> "empty" ])
    /\ UNCHANGED << imp, lsRecent, remote, histVars, scen, board, txt, wipe, hash, img,
                    cls, searchTimeout >>

\* the user reloads the page
reload ==
    /\ page # "fresh"
    /\ locationReload
    /\ UNCHANGED << storage, ev >>

\* logout(): the three keys are removed and the page is reloaded
logout ==
    /\ storage' = [ storage EXCEPT !.key = "none", !.token = "none", !.board = "none" ]
    /\ locationReload

\* settings-logout: the button of the settings modal
settingsLogout ==
    /\ page = "main"
    /\ logout
    /\ ev' = Event("logout", 0, TRUE, "none", TRUE)

\* the answer to GET /members/me/boards, awaited by handleLogin and by loadBoards
getBoardsResponse(outcome) ==
    /\ page \in { "testing", "boardsWait" }
    /\ IF outcome = "401"
       THEN /\ logout
            /\ ev' = Event("response401", 0, TRUE, "none", TRUE)
       ELSE /\ page' = IF page = "testing"
                       THEN IF outcome = "ok" THEN "boardsWait" ELSE "login"
                       ELSE IF outcome = "ok" THEN "boards" ELSE "boardsFailed"
            /\ storage' = IF page = "testing" /\ outcome = "ok"
                          THEN [ storage EXCEPT !.key = mem.apiKey, !.token = mem.apiToken ]
                          ELSE storage
            /\ ev' = Event("getBoards", 0, outcome = "ok", "none", TRUE)
            /\ UNCHANGED << appVars, mem, hash >>

\* Trello answers a call in flight with status 401
Server401(i) ==
    /\ i \in 1..Len(calls)
    /\ calls[i].st = "sent"
    /\ calls' = SetSt(i, "401")
    /\ UNCHANGED << cards, impVars, recentProducts, lsRecent, viewVars, raf, remote, ev,
                    histVars, scen >>
    /\ UNCHANGED loadVars

\* the client reads the 401: trelloFetch calls logout() and throws; addAttachmentToCard,
\* which calls fetch itself, throws 'Error subiendo imagen' into the catch of createProduct
Deliver401(i) ==
    /\ i \in 1..Len(calls)
    /\ calls[i].st = "401"
    /\ ev' = Event("response401", calls[i].id, calls[i].op # "attach", "none", TRUE)
    /\ IF calls[i].op = "attach"
       THEN /\ cards' = CardsAfterFailure(cards, calls[i])
            /\ calls' = RemoveAt(calls, i)
            /\ UNCHANGED << impVars, recentProducts, lsRecent, viewVars, raf, remote, histVars,
                            scen >>
            /\ UNCHANGED loadVars
       ELSE logout

\* the storage and the fragment a document can be opened with
InitSession ==
    /\ cards = << >>
    /\ remote = [ i \in CardIds |-> IF i \in InitIds THEN AllProductsListId ELSE "none" ]
    /\ labels = << >>
    /\ imp = ImpIdle
    /\ recentProducts = << >>
    /\ lsRecent = << >>
    /\ currentView = "stores"
    /\ currentStore = NoStore
    /\ selectedStore = NoStore
    /\ searchQuery = << >>
    /\ raf = {}
    /\ calls = << >>
    /\ ev = [ op |-> "init", id |-> 0, found |-> TRUE, pre |-> "none", solo |-> TRUE ]
    /\ overlapped = FALSE
    /\ lost = FALSE
    /\ nOps = 0
    /\ scen = NoScen
    /\ lists = << >>
    /\ board = [ lists |-> BothLists, labels |-> LabelsInit ]
    /\ load = LoadIdle
    /\ visible = { "stores" }
    /\ txt = NoText
    /\ wipe = [ pc |-> "idle", idx |-> 0, deleted |-> 0, failed |-> 0, start |-> << >>,
                sent |-> << >>, seen |-> << >>, ended |-> FALSE ]
    /\ img = NoImages
    /\ dom = "empty"
    /\ cls = [ stores |-> SeedStoreNames, site |-> "none", store |-> {}, location |-> {} ]
    /\ searchTimeout = << >>
    /\ page = "fresh"
    /\ mem = [ apiKey |-> "", apiToken |-> "", boardId |-> "", config |-> "none" ]
    /\ \E creds \in { << "none", "none", "none" >>, << "K", "T", "none" >>, << "K", "T", "B" >> },
          config \in { "none", "", "corrupt", "json:seed", "json:custom" } :
          storage = [ key |-> creds[1], token |-> creds[2], board |-> creds[3],
                      config |-> config ]
    /\ hash \in { [ key |-> "none", token |-> "none", board |-> "none" ],
                  [ key |-> "K", token |-> "T", board |-> "none" ],
                  [ key |-> "K", token |-> "T", board |-> "B" ],
                  [ key |-> "K", token |-> "none", board |-> "none" ],
                  [ key |-> "none", token |-> "T", board |-> "B" ],
                  [ key |-> "", token |-> "T", board |-> "none" ] }

NextSession ==
    \/ startup
    \/ \E key \in { "", "K" }, token \in { "", "T" } : handleLogin(key, token)
    \/ \E outcome \in { "ok", "401", "error" } : getBoardsResponse(outcome)
    \/ selectBoard
    \/ settingsLogout
    \/ reload
    \/ ServerLoadOk
    \/ ServerLoadErr
    \/ DeliverLoadOk
    \/ DeliverLoadErr
    \/ \E input \in CreateInputs : createProduct(input)
    \/ \E cardId \in CachedIds, input \in EditInputs : saveProductEdit(cardId, input)
    \/ \E i \in 1..MaxInFlight : ServerCreateCardOk(i)
    \/ \E i \in 1..MaxInFlight : ServerImageOk(i)
    \/ \E i \in 1..MaxInFlight : ServerEditOk(i)
    \/ \E i \in 1..MaxInFlight : Server401(i)
    \/ \E i \in 1..MaxInFlight : DeliverCreateCardOk(i)
    \/ \E i \in 1..MaxInFlight : DeliverAttachOk(i)
    \/ \E i \in 1..MaxInFlight : DeliverReloadOk(i)
    \/ \E i \in 1..MaxInFlight : DeliverEditOk(i)
    \/ \E i \in 1..MaxInFlight : Deliver401(i)

SpecSession == InitSession /\ [][NextSession]_vars


\* C26: when the client has read a 401 answer to a call made with the key and the token,
\* whatever the call, the key, the token and the board id are gone from the storage and
\* the document starts again, without credentials
C26_Any401EndsTheSession ==
    [][ ((\E i \in 1..Len(calls) : Deliver401(i)) \/ getBoardsResponse("401")) =>
           /\ storage'.key = "none" /\ storage'.token = "none" /\ storage'.board = "none"
           /\ page' = "fresh" ]_vars


\* C27: a handler that stops at its validation issues no call and changes no state:
\* createProduct with an empty name or without a selected store label, saveProductEdit
\* with an empty name and handleLogin with an empty key or token leave the cached
\* products, the labels, the stored credentials, the credentials in memory, the calls in
\* flight and the board at Trello as they were
C27_ValidationFailureChangesNothing ==
    [][ ( \/ \E input \in CreateInputs :
                /\ \/ input.name = << >>
                   \/ \A k \in 1..Len(labels) :
                         labels[k].id \in input.idLabels => labels[k].name \notin StoreNames
                /\ createProduct(input)
          \/ \E cardId \in CachedIds, input \in EditInputs :
                input.name = << >> /\ saveProductEdit(cardId, input)
          \/ \E key \in { "", "K" }, token \in { "", "T" } :
                (key = "" \/ token = "") /\ handleLogin(key, token) )
        => UNCHANGED << cards, labels, storage, mem, calls, remote, board >> ]_vars

\* Crear Producto was pressed on the main screen of a loaded board with a name and a
\* location label but no store, or without a name: nothing is in flight
C27_Witness ==
    /\ ev.op = "createProduct" /\ ~ev.found
    /\ page = "main" /\ Len(cards) = NumInit /\ labels = LabelsInit
    /\ calls = << >> /\ storage.key = "K" /\ mem.apiKey = "K"


\* the text that saveConfig stores for a configuration
ConfigText == [ seed |-> "json:seed", custom |-> "json:custom" ]
ParsableEntries == { ConfigText[c] : c \in DOMAIN ConfigText }

C29_FragmentConsumedAndStripped ==
    [][ startup =>
          /\ (hash.key # "none" /\ hash.token # "none") =>
                /\ storage'.key = hash.key /\ storage'.token = hash.token
                /\ hash.board # "none" => storage'.board = hash.board
                /\ hash' = [ key |-> "none", token |-> "none", board |-> "none" ]
          /\ (hash.key # "none" \/ hash.token # "none") =>
                hash' = [ key |-> "none", token |-> "none", board |-> "none" ] ]_vars


\* ------------------------------------------------------------ image cache
fetchImageWithOAuthNoCache(url) ==
    /\ url # ""
    /\ img.n < MaxImageFetches
    /\ img' = [ img EXCEPT !.reqs = Append(@, [ url |-> url, id |-> img.n + 1 ]),
                           !.n = @ + 1,
                           !.last = [ url |-> url, sent |-> TRUE, blob |-> 0 ] ]
    /\ UNCHANGED nonImgVars

\* fetchImageWithOAuth(url) up to its await: null for no URL, the cached blob URL if the
\* cache has the source URL, else the request to the proxy is sent
fetchImageWithOAuth(url) ==
    /\ IF url = ""
       THEN img' = [ img EXCEPT !.last = [ url |-> url, sent |-> FALSE, blob |-> 0 ] ]
       ELSE IF img.cache[url] # 0
       THEN img' = [ img EXCEPT !.last = [ url |-> url, sent |-> FALSE,
                                           blob |-> img.cache[url] ] ]
       ELSE /\ img.n < MaxImageFetches
            /\ img' = [ img EXCEPT !.reqs = Append(@, [ url |-> url, id |-> img.n + 1 ]),
                                   !.n = @ + 1,
                                   !.last = [ url |-> url, sent |-> TRUE, blob |-> 0 ] ]
    /\ UNCHANGED nonImgVars

\* fetchImageWithOAuth after the await: a blob URL is created and cached when the answer
\* is ok and its blob is not empty; else (an empty blob, an error status, a rejected
\* fetch) null is returned
imageResponse(k, outcome) ==
    /\ k \in 1..Len(img.reqs)
    /\ img' = IF outcome = "ok"
              THEN [ img EXCEPT !.reqs = RemoveAt(@, k),
                                !.cache[img.reqs[k].url] = img.reqs[k].id,
                                !.got = @ \cup { img.reqs[k].url } ]
              ELSE [ img EXCEPT !.reqs = RemoveAt(@, k) ]
    /\ UNCHANGED nonImgVars

NextImage ==
    \/ \E url \in { "", "u1", "u2" } : fetchImageWithOAuth(url)
    \/ \E k \in 1..MaxImageFetches, outcome \in { "ok", "empty", "error" } :
          imageResponse(k, outcome)

SpecImage == Init /\ [][NextImage]_vars

\* C30: a fetch of a source URL that begins after a fetch of that URL has returned a
\* blob URL returns the cached blob URL and sends no request to the proxy; no entry
\* leaves the cache; an answer that yields no image adds no entry
C30_CachedImageIsReused ==
    /\ [][ \A url \in DOMAIN img.cache :
              (url \in img.got /\ img'.last # img.last /\ img'.last.url = url) =>
                 /\ img'.reqs = img.reqs /\ img'.n = img.n
                 /\ img'.last.blob # 0 /\ img'.last.blob = img.cache[url] ]_vars
    /\ [][ \A url \in DOMAIN img.cache : img.cache[url] # 0 => img'.cache[url] # 0 ]_vars
    /\ [][ \A k \in 1..Len(img.reqs) :
              (imageResponse(k, "empty") \/ imageResponse(k, "error")) =>
                 img'.cache = img.cache ]_vars

\* the image of u1 was fetched twice at once, both requests were answered with an image,
\* and a third fetch of u1 was answered from the cache with the blob URL of the later
\* answer, while a fetch of u2 that failed left no entry
C30_Witness ==
    /\ img.got = { "u1" } /\ img.n = 3 /\ img.reqs = << >>
    /\ img.cache["u1"] # 0 /\ img.cache["u2"] = 0
    /\ img.last = [ url |-> "u1", sent |-> FALSE, blob |-> img.cache["u1"] ]


\* --------------------------------------------------- claims on the toggles
\* C33: a toggle of a product that the cache holds in the catalog list leaves the log of
\* recent products as it was when it is issued and when its call returns, with success
\* or with an error; a step changes the log only if it issues a toggle of a product the
\* cache holds in the active list, or returns the call of such a toggle
C33_LogChangesOnlyOnLeavingActive ==
    [][ /\ ( /\ Len(calls') = Len(calls) + 1
             /\ calls'[Len(calls')].op = "move"
             /\ calls'[Len(calls')].prev = AllProductsListId ) => UNCHANGED recentProducts
        /\ \A i \in 1..Len(calls) :
              ( /\ calls[i].op = "move" /\ calls[i].prev = AllProductsListId
                /\ DeliverMoveOk(i) \/ DeliverMoveErr(i) ) => UNCHANGED recentProducts
        /\ recentProducts' # recentProducts =>
              \/ /\ Len(calls') = Len(calls) + 1
                 /\ calls'[Len(calls')].op = "move"
                 /\ calls'[Len(calls')].prev = ActiveListId
              \/ \E i \in 1..Len(calls) :
                    /\ calls[i].op = "move" /\ calls[i].prev = ActiveListId
                    /\ DeliverMoveOk(i) ]_vars

\* product 1 was put on the list from the shopping view and Trello has moved it: the log
\* still holds the one product it held, and 1 is not in it
C33_Witness ==
    /\ ev.op = "moveOk" /\ ev.pre = AllProductsListId /\ ev.id = 1
    /\ ListOf(1) = ActiveListId /\ remote[1] = ActiveListId
    /\ recentProducts = << NumInit >>
    /\ calls = << >>


\* C34: saveProductEdit and deleteProduct whose call fails leave the cache of products as
\* it was before them: the step that issues the call changes no product, and the step
\* that reads the failure changes no product
C34_FailedEditOrDeleteKeepsCache ==
    [][ /\ ( /\ Len(calls') = Len(calls) + 1
             /\ calls'[Len(calls')].op \in { "edit", "delete" } ) => cards' = cards
        /\ \A i \in 1..Len(calls) :
              ( /\ calls[i].op \in { "edit", "delete" } /\ calls[i].st = "err"
                /\ Len(calls') = Len(calls) - 1
                /\ calls' = RemoveAt(calls, i) ) => cards' = cards ]_vars

\* the call of an edit or of a delete has failed and nothing else is in flight: the
\* cache is the one the board load left
C34_Witness ==
    /\ ev.op \in { "editErr", "deleteErr" }
    /\ calls = << >>
    /\ cards = [ i \in InitIds |-> InitCard(i, remote[i]) ]
    /\ \A i \in InitIds : remote[i] # "none"


\* C35: the log of recent products never holds a product twice; adding a product that
\* the log holds moves its entry to the front and keeps the other entries in their order
C35_LogHoldsEachProductOnce ==
    /\ \A j, k \in 1..Len(recentProducts) : j # k => recentProducts[j] # recentProducts[k]
    /\ [][ ( /\ nOps' = nOps + 1
             /\ ev'.op = "addToRecent"
             /\ \E k \in 1..Len(recentProducts) : recentProducts[k] = ev'.id ) =>
              LET k == CHOOSE k \in 1..Len(recentProducts) : recentProducts[k] = ev'.id
              IN recentProducts' = << ev'.id >> \o SubSeq(recentProducts, 1, k - 1)
                                      \o SubSeq(recentProducts, k + 1, Len(recentProducts)) ]_vars

\* a product that a full log held was added again: it is the first entry, and the log
\* is still full
C35_Witness ==
    /\ ev.op = "addToRecent" /\ ev.found /\ ~ev.solo
    /\ Len(recentProducts) = MaxRecent
    /\ Head(recentProducts) = ev.id
    /\ nOps = 1


\* C38: when createProduct ends, with its toast of success or in its catch block, the
\* card of its POST /cards exists at Trello if and only if the cache holds it
C38_CreatedIffCached ==
    [][ \A i \in 1..Len(calls) :
          ( /\ calls[i].ep = "createProduct"
            /\ calls' = RemoveAt(calls, i)
            /\ ev'.op \in { "createOk", "createErr" } /\ ev'.id = calls[i].id ) =>
             ( (calls[i].id \in NewIds /\ remote'[calls[i].id] # "none")
                  <=> \E k \in 1..Len(cards') : cards'[k].id = calls[i].id ) ]_vars


\* C39: when deleteAllProducts ends, each product it called delete for is in the cache if
\* and only if it is still on the board at Trello, that is if its delete call failed
C39_CacheKeepsWhatWasNotDeleted ==
    [][ (wipe.pc = "await" /\ wipe'.pc = "idle") =>
           \A j \in 1..Len(wipe'.sent) :
              remote'[wipe'.sent[j]] # "none"
                 <=> \E k \in 1..Len(cards') : cards'[k].id = wipe'.sent[j] ]_vars

\* ------------------------------------- toggles, navigation and refresh together
\* the user navigates, toggles products and refreshes while moves and loads are in flight
NextMix ==
    \/ \E store \in StoreLabelIds : showStoreDetail(store)
    \/ showStoreCards
    \/ showShoppingMode
    \/ \E store \in StoreLabelIds : selectShoppingStore(store)
    \/ backToShoppingStores
    \/ \E cardId \in CachedIds \cup { AbsentId } : toggleProduct(cardId)
    \/ \E cardId \in CachedIds \cup { AbsentId } : toggleCardActive(cardId)
    \/ \E kind \in { "detail", "switch" } : runAnimationFrame(kind)
    \/ \E i \in 1..MaxInFlight : ServerMoveOk(i)
    \/ \E i \in 1..MaxInFlight : ServerMoveErr(i)
    \/ \E i \in 1..MaxInFlight : DeliverMoveOk(i)
    \/ \E i \in 1..MaxInFlight : DeliverMoveErr(i)
    \/ refresh
    \/ ServerLoadOk
    \/ ServerLoadErr
    \/ DeliverLoadOk
    \/ DeliverLoadErr

\* the first product is on the shopping list, the others are not, and the log is empty
InitMix ==
    /\ Init
    /\ recentProducts = << >>
    /\ \A i \in InitIds : remote[i] = IF i = 1 THEN ActiveListId ELSE AllProductsListId

SpecMix == InitMix /\ [][NextMix]_vars

\* C40: in every state the detail view has its store, in the shopping view the
\* container shows the products of a store exactly when a store is selected, and every
\* entry into the shopping view (by the button or by the refresh that ends in
\* showShoppingMode) leaves no store selected and the store selector on screen
C40_ViewsHaveTheirStore ==
    /\ [] ( /\ currentView = "detail" => currentStore # NoStore
            /\ currentView = "shopping" => ( dom = "browse" <=> selectedStore # NoStore ) )
    /\ [][ ( \/ showShoppingMode
             \/ currentView # "shopping" /\ currentView' = "shopping"
             \/ ( DeliverLoadOk \/ DeliverLoadErr ) /\ load.origin = "shopping" )
           => /\ currentView' = "shopping"
              /\ selectedStore' = NoStore
              /\ dom' = "selector" ]_vars

\* a store was browsed, the user went back to the stores and entered the shopping view
\* again: the selector is shown and no store is selected
C40_Witness ==
    /\ currentView = "shopping"
    /\ selectedStore = NoStore
    /\ dom = "selector"
    /\ currentStore # NoStore
    /\ nOps >= 1

\* C36: no render that a toggle scheduled, the optimistic one or the one after a
\* rollback, reads a store that is null: when the callback of toggleCardActive runs in
\* the shopping view, where it calls renderShoppingView, a store is selected
C36_ScheduledRenderReadsItsStore ==
    [][ ( runAnimationFrame("switch") /\ currentView = "shopping" )
           => selectedStore # NoStore ]_vars

\* C37: when a refresh and a toggle have been in flight together and both have
\* resolved (no call and no load is pending, and no two moves overlapped), the list of
\* every cached product is the list Trello has it in
C37_RefreshOverToggleKeepsMembership ==
    ( /\ calls = << >>
      /\ load.pc = "idle"
      /\ load.outcome # "none"
      /\ ev.op \in { "moveOk", "moveErr" }
      /\ ~overlapped )
       => LocalEqualsRemote

\* ------------------------------------------------- the two groups of labels
\* the two groups as the place site makes them from the labels lbs when getStoreNames()
\* gives names. Most places filter by storeNames.includes(l.name) and its negation (a
\* place that builds one group only leaves the other labels to the other group);
\* showProductDetail filters by a list of names written in its code; setupBoardStructure
\* filters by two lists of colors
LabelGroups(site, lbs, names) ==
    LET LabelIdsWhere(ls, Test(_)) == { ls[i].id : i \in { j \in 1..Len(ls) : Test(ls[j]) } }
        InConfig(l) == l.name \in names
        NotInConfig(l) == l.name \notin names
        Literal == { "Mercadona", "Fruteria", "Farmacia", "Carniceria", "Caprabo" }
        InLiteral(l) == l.name \in Literal
        NotInLiteral(l) == l.name \notin Literal
        StoreColor(l) == l.color \in StoreColors
        LocationColor(l) == l.color \in LocationColors
    IN CASE site = "productDetail" ->
              [ store |-> LabelIdsWhere(lbs, InLiteral),
                location |-> LabelIdsWhere(lbs, NotInLiteral) ]
         [] site = "bootstrap" ->
              [ store |-> LabelIdsWhere(lbs, StoreColor),
                location |-> LabelIdsWhere(lbs, LocationColor) ]
         [] OTHER ->
              [ store |-> LabelIdsWhere(lbs, InConfig),
                location |-> LabelIdsWhere(lbs, NotInConfig) ]

\* one of the places runs and groups the labels (showProductDetail for a product that
\* carries every label)
classify(site) ==
    /\ cls.site # site
    /\ LET g == LabelGroups(site, labels, { cls.stores[i] : i \in 1..Len(cls.stores) })
       IN cls' = [ cls EXCEPT !.site = site, !.store = g.store, !.location = g.location ]
    /\ UNCHANGED << cards, impVars, recentProducts, lsRecent, viewVars, raf, calls, remote, ev,
                    histVars, scen, lists, board, load, txt, wipe, storage, mem, hash, page,
                    img, searchTimeout >>

\* add-store-btn of the stores modal: the name is pushed to this.config.stores and the
\* config is saved; if no label has the name, an orange label is created in Trello and,
\* when that succeeds, pushed to this.labels
addStore(name, created) ==
    /\ nOps < MaxOps
    /\ nOps' = nOps + 1
    /\ cls' = [ cls EXCEPT !.stores = Append(@, name), !.site = "none" ]
    /\ IF created /\ \A i \in 1..Len(labels) : labels[i].name # name
       THEN /\ labels' = Append(labels, [ id |-> name, name |-> name, color |-> "orange" ])
            /\ board' = [ board EXCEPT !.labels = Append(@, [ id |-> name, name |-> name,
                                                               color |-> "orange" ]) ]
       ELSE UNCHANGED << labels, board >>
    /\ UNCHANGED << cards, imp, recentProducts, lsRecent, viewVars, raf, calls, remote, ev,
                    overlapped, lost, scen, lists, load, txt, wipe, storage, mem, hash, page,
                    img, searchTimeout >>

\* removeStore(index), confirmed: this.config.stores.splice(index, 1) and the config is saved
removeStore(index) ==
    /\ index \in 1..Len(cls.stores)
    /\ nOps < MaxOps
    /\ nOps' = nOps + 1
    /\ cls' = [ cls EXCEPT !.stores = RemoveAt(@, index), !.site = "none" ]
    /\ UNCHANGED << cards, impVars, recentProducts, lsRecent, viewVars, raf, calls, remote, ev,
                    overlapped, lost, scen, lists, board, load, txt, wipe, storage, mem, hash,
                    page, img, searchTimeout >>

NextGroups ==
    \/ \E site \in { "storeGrid", "storeSelector", "editPickers", "createPickers",
                     "shoppingView", "export", "productDetail", "bootstrap" } : classify(site)
    \/ \E name \in { "Lidl", "Nevera" }, created \in BOOLEAN : addStore(name, created)
    \/ \E index \in 1..(Len(SeedStoreNames) + MaxOps + 1) : removeStore(index)

SpecGroups == Init /\ [][NextGroups]_vars

\* C31: every place that groups the labels takes as store labels exactly the labels
\* whose name is among the configured store names at that moment, and as location labels
\* all the others
C31_GroupsFollowConfiguredStores ==
    cls.site # "none" =>
        /\ cls.store = { labels[i].id : i \in { j \in 1..Len(labels) :
                              \E k \in 1..Len(cls.stores) : labels[j].name = cls.stores[k] } }
        /\ cls.location = { labels[i].id : i \in 1..Len(labels) } \ cls.store

\* ------------------------------------------------- the timer of the search box
\* the user opens and leaves store details, types and erases in the search box, and
\* clears it, while the timers of the box run out
NextDebounce ==
    \/ \E store \in StoreLabelIds : showStoreDetail(store)
    \/ showStoreCards
    \/ \E c \in { "l", "e" } : typeChar(c)
    \/ eraseChar
    \/ clearSearch
    \/ searchTimeoutFires

SpecDebounce == Init /\ [][NextDebounce]_vars

\* C32 as stated: at most one timer of the search box is pending, and the render of a
\* timer that runs out filters by the value of the last key stroke, which is the value
\* that the timer holds
C32_RenderUsesLastKeystroke ==
    /\ [] ( Len(searchTimeout) <= 1 )
    /\ [][ searchTimeoutFires =>
              RenderedQuery(searchQuery, Head(searchTimeout)) = Head(searchTimeout) ]_vars

\* C32, amended: at most one timer of the search box is pending, and the render of a
\* timer that runs out filters by the query that is current then, which is the value
\* of the last key stroke, or the empty query when the clear button or a show function
\* (a change of view, the end of a refresh) has emptied the query since
C32_RenderUsesCurrentQuery ==
    /\ [] ( Len(searchTimeout) <= 1 )
    /\ [][ searchTimeoutFires =>
              LET shown == RenderedQuery(searchQuery, Head(searchTimeout))
              IN /\ shown = searchQuery
                 /\ shown \in { Head(searchTimeout), << >> } ]_vars

\* two key strokes have been made, and the one timer that is pending holds the value of
\* the second, which is the query
C32_Witness ==
    /\ currentView = "detail"
    /\ searchTimeout = << << "l", "e" >> >>
    /\ searchQuery = << "l", "e" >>


====
